---------------------------- MODULE Spec2Model ----------------------------
(***************************************************************************)
(* A model of the Puerro virtual-DOM utilities (vNode, render, diff,       *)
(* changed, mount, Controller) and of the bundled Preact reconciler        *)
(* (diff$1, idiff, innerDiffNode, the component runtime) they are paired   *)
(* with in PreactController.                                               *)
(*                                                                         *)
(* JavaScript values are tagged records, so that values of different       *)
(* JavaScript types are different TLA+ values and typeof, ===, == and      *)
(* toString can be written out as the language defines them.               *)
(***************************************************************************)
EXTENDS Integers, Sequences, FiniteSets, TLC

VARIABLES
  node1, node2, result, cpc,     \* changed(node1, node2): inputs, result, position
  hArgs, hNode,                  \* h(tagName, attributes, ...nodes): arguments, result
  rNode, rDom, rOut, rpc,        \* render(rNode): input, document, result node, position
  mounted,                       \* mount: a mounted view with the state it keeps
  vDom, dom, domPlain,           \* mount: retained tree, document with diffing, without
  oldVDom, newVDom, threw, calls, \* mount: the last setState's trees, whether it threw, count
  pDoc, pOld,                    \* Preact render: the document now and before the last call
  pVnode, pOldVnode, renders,    \* Preact render: the last two vnodes, number of calls
  pOp,                           \* Preact: the last operation
  controllers, para, net, steps, \* the two controllers, their first paragraph, net counts, actions
  obsv, obsObject, obsList,      \* the observables, the observable object, the observable list
  notes, oOp                     \* observables: the listener calls of the last operation, the operation

varsChanged == <<node1, node2, result, cpc, hArgs, hNode>>
varsRender == <<rNode, rDom, rOut, rpc>>
varsMount == <<vDom, dom, domPlain, oldVDom, newVDom, threw, calls, mounted>>
varsPreact == <<pDoc, pOld, pVnode, pOldVnode, renders, pOp>>
varsController == <<controllers, para, net, steps>>
varsObservable == <<obsv, obsObject, obsList, notes, oOp>>
vars == <<varsChanged, varsRender, varsMount, varsPreact, varsController, varsObservable>>

-----------------------------------------------------------------------------
(* Bounds of the model *)

\* numbers range over 0 .. MaxNum
MaxNum == 1
\* an element of a drawn tree has at most MaxKids children
MaxKids == 2
\* setState is called at most MaxCalls times on one mount
MaxCalls == 1
\* a keyed list holds distinct keys out of 1 .. MaxKeys
MaxKeys == 3
\* render is called at most MaxListRenders times on keyed lists
MaxListRenders == 2
\* render is called at most MaxRenders times on component trees
MaxRenders == 3
\* the controllers take at most MaxSteps actions
MaxSteps == 4
MaxOps == 3
MaxPing == 2
MaxLiveOps == 2
\* the listeners registered in one listener array, the items of a list
MaxListeners == 2
MaxItems == 3

-----------------------------------------------------------------------------
(* JavaScript values *)

Undef == [t |-> "undef"]
Null == [t |-> "null"]
Num(n) == [t |-> "num", n |-> n]
Str(s) == [t |-> "str", s |-> s]
Bool(b) == [t |-> "bool", b |-> b]
\* a function object: id is its identity, src the text toString() gives;
\* two closures created by the same arrow expression differ in id only
Fn(id, src) == [t |-> "fn", id |-> id, src |-> src]
\* marks a key that an object does not have (not a JavaScript value)
Absent == [t |-> "absent"]

IsNullish(v) == v.t \in {"undef", "null"}

TypeOf(v) ==
  CASE v.t = "undef" -> "undefined"
    [] v.t = "null" -> "object"
    [] v.t = "num" -> "number"
    [] v.t = "str" -> "string"
    [] v.t = "bool" -> "boolean"
    [] v.t = "fn" -> "function"
    [] OTHER -> "object"

DigitStr == <<"0", "1", "2", "3", "4", "5", "6", "7", "8", "9">>

RECURSIVE NatToString(_)
NatToString(n) ==
  IF n < 10 THEN DigitStr[n + 1]
  ELSE NatToString(n \div 10) \o DigitStr[(n % 10) + 1]

\* Number.prototype.toString for integers
NumToString(n) == IF n < 0 THEN "-" \o NatToString(-n) ELSE NatToString(n)

\* v.toString() for the non-nullish values of the model
JsToString(v) ==
  CASE v.t = "num" -> NumToString(v.n)
    [] v.t = "str" -> v.s
    [] v.t = "bool" -> (IF v.b THEN "true" ELSE "false")
    [] v.t = "fn" -> v.src
    [] OTHER -> "[object Object]"

\* a === b: same type and same value (functions and objects by identity)
StrictEq(a, b) == a = b

-----------------------------------------------------------------------------
(* Node Model (vdom) *)

AttrKeys == {"a", "b"}

\* obj[k]: a key the object does not have reads as undefined
Get(obj, k) == IF obj[k] = Absent THEN Undef ELSE obj[k]

\* Object.keys(obj)
Keys(obj) == {k \in DOMAIN obj : obj[k] # Absent}

EmptyObj == [k \in AttrKeys |-> Absent]

\* vNode(tagName, attributes, ...nodes); children is the flattened sequence
vNode(tagName, attributes, children) ==
  [t |-> "el",
   tagName |-> tagName,
   attributes |-> IF attributes \in {Undef, Null} THEN EmptyObj ELSE attributes,
   children |-> children]

\* an array given to h as one of its nodes
Arr(items) == [t |-> "array", items |-> items]
RECURSIVE concat(_)
\* [].concat(...nodes): a node that is an array gives its elements, any
\* other node is an element itself
concat(nodes) ==
  IF nodes = <<>> THEN <<>>
  ELSE (IF Head(nodes).t = "array" THEN Head(nodes).items ELSE <<Head(nodes)>>)
         \o concat(Tail(nodes))
\* h without [].concat: the nodes as they are given
hNested(tagName, attributes, nodes) == vNode(tagName, attributes, nodes)
\* h(tagName, attributes, ...nodes): nodes is the array of the rest
\* arguments, which is never null
h(tagName, attributes, nodes) == vNode(tagName, attributes, concat(nodes))

IsEl(n) == n.t = "el"
IsPrim(n) == n.t \in {"str", "num"}

\* node.type: no node of the model has a property named type
TypeProp(n) == Undef

\* node.attributes: undefined on a primitive
AttributesProp(n) == IF IsEl(n) THEN n.attributes ELSE Undef

\* NormStr without the null == v guard: String(v) of a nullish value
NormStrNoGuard(v) ==
  IF v.t = "null" THEN "null" ELSE IF v.t = "undef" THEN "undefined" ELSE JsToString(v)

\* (null == v ? '' : v).toString()
NormStr(v) == IF IsNullish(v) THEN "" ELSE JsToString(v)

\* nodeChanged without the typeof comparison
nodeChangedNoTypeof(n1, n2) ==
  \/ (TypeOf(n1) \in {"string", "number"} /\ ~StrictEq(n1, n2))
  \/ ~StrictEq(TypeProp(n1), TypeProp(n2))

nodeChanged(n1, n2) ==
  \/ TypeOf(n1) # TypeOf(n2)
  \/ (TypeOf(n1) \in {"string", "number"} /\ ~StrictEq(n1, n2))
  \/ ~StrictEq(TypeProp(n1), TypeProp(n2))

attributesChanged(n1, n2) ==
  /\ AttributesProp(n1) # Undef
  /\ AttributesProp(n2) # Undef
  /\ \/ Cardinality(Keys(n1.attributes)) # Cardinality(Keys(n2.attributes))
     \/ \E a \in Keys(n1.attributes) :
          /\ ~StrictEq(Get(n1.attributes, a), Get(n2.attributes, a))
          /\ NormStr(Get(n1.attributes, a)) # NormStr(Get(n2.attributes, a))

\* changed(node1, node2), for node1 and node2 not null/undefined
changed(n1, n2) == nodeChanged(n1, n2) \/ attributesChanged(n1, n2)

-----------------------------------------------------------------------------
(* Inputs of changed *)

Nums == {Num(n) : n \in 0 .. MaxNum}
PrimNodes == Nums \cup {Str(""), Str("0"), Str("a")}
AttrVals ==
  Nums \cup {Undef, Null, Str(""), Str("0"), Bool(FALSE), Fn(1, "f"), Fn(2, "f")}
AttrMaps == [AttrKeys -> AttrVals \cup {Absent}]
Tags == {"p", "span"}

\* element nodes without children: built by vNode, or object literals
\* such as { tagName: 'p' } that carry no attributes
FlatElems ==
  {vNode(tg, at, <<>>) : tg \in Tags, at \in AttrMaps}
    \cup {[t |-> "el", tagName |-> tg, attributes |-> Undef, children |-> <<>>] :
            tg \in Tags}

ChangedInputs == PrimNodes \cup FlatElems

-----------------------------------------------------------------------------
(* The document: a heap of live nodes.  A node is named by its index in   *)
(* nodes; 0 stands for undefined/null where a node is expected.           *)

\* String.prototype.toUpperCase / toLowerCase on the tag names of the model
ToUpper(s) ==
  CASE s = "p" -> "P" [] s = "span" -> "SPAN" [] s = "div" -> "DIV"
    [] s = "ul" -> "UL" [] s = "li" -> "LI" [] s = "undefined" -> "UNDEFINED"
    [] OTHER -> s

ToLower(s) ==
  CASE s = "P" -> "p" [] s = "SPAN" -> "span" [] s = "DIV" -> "div"
    [] s = "UL" -> "ul" [] s = "LI" -> "li" [] s = "UNDEFINED" -> "undefined"
    [] OTHER -> s

EmptyDoc == [nodes |-> <<>>, err |-> FALSE, muts |-> 0]

\* an exception is thrown: the rest of the running call is skipped
Throw(w) == [w EXCEPT !.err = TRUE]

\* a fresh node; name is nodeName, value is nodeValue (of a text node)
NewNode(kind, name, value) ==
  [kind |-> kind, name |-> name, value |-> value,
   attrs |-> EmptyObj, listeners |-> {}, parent |-> 0, kids |-> <<>>,
   \* properties Preact puts on a node: __preactattr_, _component,
   \* _componentConstructor, normalizedNodeName (Absent, 0, "": not set)
   \* and _listeners, the handlers that eventProxy calls
   pattr |-> Absent, comp |-> 0, ctor |-> "", norm |-> "", handlers |-> Absent]

LastId(w) == Len(w.nodes)

\* document.createElement(tagName): the new node is LastId of the result
createElement(w, tagName) ==
  [w EXCEPT !.nodes = Append(@, NewNode("elem", ToUpper(tagName), ""))]

\* document.createTextNode(data)
createTextNode(w, data) ==
  [w EXCEPT !.nodes = Append(@, NewNode("text", "#text", data))]

\* parent.childNodes[index]; undefined (0) out of range
childNodes(w, parent, index) ==
  IF index < Len(w.nodes[parent].kids) THEN w.nodes[parent].kids[index + 1] ELSE 0

firstChild(w, parent) == childNodes(w, parent, 0)

\* s without its element at position i
RemoveAt(s, i) == SubSeq(s, 1, i - 1) \o SubSeq(s, i + 1, Len(s))

\* the position of x in s (x occurs in s)
IndexOf(s, x) == CHOOSE i \in 1 .. Len(s) : s[i] = x

\* the node taken out of its parent's child list, as the DOM does before it
\* inserts a node somewhere else
Detach(w, c) ==
  LET p == w.nodes[c].parent
  IN IF p = 0 THEN w
     ELSE [w EXCEPT !.nodes[p].kids = RemoveAt(@, IndexOf(@, c)),
                    !.nodes[c].parent = 0]

\* parent.appendChild(child): TypeError on an undefined receiver or argument,
\* HierarchyRequestError when parent is a text node
appendChild(w, parent, child) ==
  IF w.err THEN w
  ELSE IF parent = 0 \/ child = 0 THEN Throw(w)
  ELSE IF w.nodes[parent].kind # "elem" THEN Throw(w)
  ELSE LET d == Detach(w, child)
       IN [d EXCEPT !.nodes[parent].kids = Append(@, child),
                    !.nodes[child].parent = parent,
                    !.muts = @ + 1]

\* parent.removeChild(child): TypeError on undefined, NotFoundError when
\* child is not a child of parent
removeChild(w, parent, child) ==
  IF w.err THEN w
  ELSE IF parent = 0 \/ child = 0 THEN Throw(w)
  ELSE IF w.nodes[child].parent # parent THEN Throw(w)
  ELSE [Detach(w, child) EXCEPT !.muts = @ + 1]

\* parent.replaceChild(newChild, oldChild)
replaceChild(w, parent, newChild, oldChild) ==
  IF w.err THEN w
  ELSE IF parent = 0 \/ newChild = 0 \/ oldChild = 0 THEN Throw(w)
  ELSE IF w.nodes[oldChild].parent # parent THEN Throw(w)
  ELSE IF newChild = oldChild THEN w
  ELSE LET d == Detach(w, newChild)
           i == IndexOf(d.nodes[parent].kids, oldChild)
       IN [d EXCEPT !.nodes[parent].kids[i] = newChild,
                    !.nodes[newChild].parent = parent,
                    !.nodes[oldChild].parent = 0,
                    !.muts = @ + 1]

\* element.setAttribute(key, value): the value is stored as a string
setAttribute(w, el, key, value) ==
  [w EXCEPT !.nodes[el].attrs[key] = Str(JsToString(value))]

\* element.addEventListener(type, fn)
addEventListener(w, el, type, fn) ==
  [w EXCEPT !.nodes[el].listeners = @ \cup {[type |-> type, fn |-> fn.id]}]

RECURSIVE textContent(_, _), textOfKids(_, _, _)
\* node.textContent: the text of the node's text descendants, in order
textContent(w, id) ==
  IF w.nodes[id].kind = "text" THEN w.nodes[id].value
  ELSE textOfKids(w, w.nodes[id].kids, 1)
textOfKids(w, kids, i) ==
  IF i > Len(kids) THEN "" ELSE textContent(w, kids[i]) \o textOfKids(w, kids, i + 1)

-----------------------------------------------------------------------------
(* Materializer: createDomElement and render *)

\* createDomElement without the filter on null/undefined values
createDomElementNoFilter(w, tagName, attributes) ==
  LET at == IF attributes = Undef THEN EmptyObj ELSE attributes
      w1 == createElement(w, tagName)
      el == LastId(w1)
  IN [w1 EXCEPT
        !.nodes[el].attrs =
          [k \in AttrKeys |->
             IF at[k] = Absent \/ at[k].t = "fn" THEN Absent
             ELSE IF IsNullish(at[k])
                  THEN Str(IF at[k].t = "null" THEN "null" ELSE "undefined")
                  ELSE Str(JsToString(at[k]))],
        !.nodes[el].listeners =
          {[type |-> k, fn |-> at[k].id] : k \in {x \in Keys(at) : at[x].t = "fn"}}]

\* createDomElement(tagName, attributes): every key whose value is not
\* null/undefined becomes a listener (a function) or an attribute
createDomElement(w, tagName, attributes) ==
  LET at == IF attributes = Undef THEN EmptyObj ELSE attributes
      w1 == createElement(w, tagName)
      el == LastId(w1)
      kept == {k \in Keys(at) : ~IsNullish(at[k])}
  IN [w1 EXCEPT
        !.nodes[el].attrs =
          [k \in AttrKeys |->
             IF k \in kept /\ at[k].t # "fn" THEN Str(JsToString(at[k])) ELSE Absent],
        !.nodes[el].listeners =
          {[type |-> k, fn |-> at[k].id] : k \in {x \in kept : at[x].t = "fn"}}]

RECURSIVE render(_, _), renderChildren(_, _, _, _)
\* render(node): the result is [w |-> the document, id |-> the new node]
render(w, node) ==
  IF IsNullish(node)
  THEN LET w1 == createTextNode(w, "") IN [w |-> w1, id |-> LastId(w1)]
  ELSE IF IsPrim(node)
  THEN LET w1 == createTextNode(w, JsToString(node)) IN [w |-> w1, id |-> LastId(w1)]
  ELSE LET w1 == createDomElement(w, node.tagName, node.attributes)
           el == LastId(w1)
       IN [w |-> renderChildren(w1, el, node.children, 1), id |-> el]
\* node.children.forEach(c => $element.appendChild(render(c)))
renderChildren(w, el, children, i) ==
  IF i > Len(children) THEN w
  ELSE LET r == render(w, children[i])
       IN renderChildren(appendChild(r.w, el, r.id), el, children, i + 1)

-----------------------------------------------------------------------------
(* Tree Differ: the ordinal diff *)

\* oldNode.children[i]: undefined past the end
ChildAt(node, i) ==
  IF i < Len(node.children) THEN node.children[i + 1] ELSE Undef

RECURSIVE diff(_, _, _, _, _), diffChildren(_, _, _, _, _, _)
\* diff($parent, newNode, oldNode, index); $parent = 0 is an undefined
\* $parent, on which every member access throws a TypeError
diff(w, parent, newNode, oldNode, index) ==
  IF w.err THEN w
  ELSE IF IsNullish(oldNode)
  THEN IF parent = 0 THEN Throw(w)
       ELSE LET r == render(w, newNode) IN appendChild(r.w, parent, r.id)
  ELSE IF IsNullish(newNode)
  THEN IF parent = 0 THEN Throw(w)
       ELSE removeChild(w, parent, childNodes(w, parent, index))
  ELSE IF changed(oldNode, newNode)
  THEN IF parent = 0 THEN Throw(w)
       ELSE LET r == render(w, newNode)
            IN replaceChild(r.w, parent, r.id, childNodes(r.w, parent, index))
  ELSE IF IsEl(newNode) /\ newNode.tagName # ""
  THEN diffChildren(w, parent, newNode, oldNode, index, 0)
  ELSE w
\* newNode.children.forEach((newNode, i) =>
\*   diff($parent.childNodes[index], newNode, oldNode.children[i], i))
diffChildren(w, parent, newNode, oldNode, index, i) ==
  IF w.err \/ i >= Len(newNode.children) THEN w
  ELSE IF parent = 0 THEN Throw(w)
  ELSE diffChildren(
         diff(w, childNodes(w, parent, index), newNode.children[i + 1],
              ChildAt(oldNode, i), i),
         parent, newNode, oldNode, index, i + 1)

-----------------------------------------------------------------------------
(* mount: a stateful view rendered into $root, re-rendered by setState *)

\* the document holding only the empty $root element; $root is node 1
Root == 1
RootDoc == createElement(EmptyDoc, "div")

\* the first rendering of mount: $root is empty, so the tree is appended
mountInitial(tree) ==
  LET r == render(RootDoc, tree) IN appendChild(r.w, Root, r.id)

\* setState with diffing: diff($root, newVDom, vDom); an exception leaves
\* the call before vDom = newVDom
setStateDiffing(w, new, old) == diff([w EXCEPT !.err = FALSE, !.muts = 0], Root, new, old, 0)

\* setState without diffing: $root.replaceChild(render(newVDom), $root.firstChild)
setStatePlain(w, new) ==
  LET r == render([w EXCEPT !.err = FALSE, !.muts = 0], new)
  IN replaceChild(r.w, Root, r.id, firstChild(r.w, Root))

-----------------------------------------------------------------------------
(* Trees drawn as the results of view *)

LeafKids == Nums \cup {Null, Str("a")}
ElemKids ==
  {vNode("p", Null, <<>>),
   vNode("span", Null, <<Str("a")>>),
   vNode("p", [EmptyObj EXCEPT !["a"] = Str("0")], <<>>)}
KidSeqs == UNION {[1 .. n -> LeafKids \cup ElemKids] : n \in 0 .. MaxKids}
Trees == {vNode(tg, Null, ks) : tg \in Tags, ks \in KidSeqs}

\* nodes given to render alone: attribute values of every kind
RenderKidSeqs == UNION {[1 .. n -> LeafKids] : n \in 0 .. MaxKids}
RenderInputs ==
  LeafKids
    \cup {vNode(tg, at, ks) : tg \in Tags, at \in AttrMaps, ks \in RenderKidSeqs}
    \cup {vNode("div", Null, <<vNode("p", at, <<>>), Num(0), Null>>) : at \in AttrMaps}

-----------------------------------------------------------------------------
(* Preact: the document of the reconciler, with its module-level state *)

\* the ref objects of the scenarios, each { current }
RefIds == {"r"}
Ref(r) == [t |-> "ref", id |-> r]

\* the document plus items (the dirty queue), mounts, diffLevel, hydrating,
\* recyclerComponents, the component instances (an instance is named by its
\* index in comps), the log of the lifecycle hooks that ran, the number of
\* rerender calls handed to defer that have not run yet, and the current
\* property of each ref object
\* what the document keeps of the exception a hook threw in the current
\* operation: the live nodes and the length of the log as it was thrown
NoThrow == [on |-> FALSE, nodes |-> <<>>, at |-> 0]
PreactDoc ==
  [nodes |-> <<>>, err |-> FALSE, muts |-> 0,
   comps |-> <<>>, items |-> <<>>, mounts |-> <<>>, diffLevel |-> 0,
   hydrating |-> FALSE, recycler |-> <<>>, log |-> <<>>,
   timers |-> 0, refs |-> [r \in RefIds |-> Undef],
   thrown |-> NoThrow]

\* the keys of the attributes of a Preact vnode
PropKeys == {"key", "ref", "a", "onclick"}
NoProps == [k \in PropKeys |-> Absent]

\* applyRef(ref, value) on a ref object: ref.current = value
applyRef(w, ref, value) ==
  IF ref \in {Undef, Null, Absent} THEN w ELSE [w EXCEPT !.refs[ref.id] = value]

\* the values a ref holds: a component instance or a DOM node
CompRef(c) == [t |-> "comp", id |-> c]
NodeRef(n) == [t |-> "node", id |-> n]

\* a component constructor, a value whose typeof is 'function'
Ctor(c) == [t |-> "fn", id |-> c, src |-> c]

\* a vnode as Preact's h builds it: h(nodeName, attributes, ...children)
\* copies attributes.key to vnode.key
pNode(nodeName, attributes, children) ==
  [t |-> "el", nodeName |-> nodeName, attributes |-> attributes,
   children |-> children,
   key |-> IF attributes = Undef THEN Undef ELSE Get(attributes, "key")]

\* vnode.nodeName and vnode.key: undefined on a primitive and on a Puerro
\* node, which has tagName and no nodeName or key
NodeNameProp(v) == IF "nodeName" \in DOMAIN v THEN v.nodeName ELSE Undef
\* a new child read as if it had no key
KeyPropNone(v) == Undef
KeyProp(v) == IF "key" \in DOMAIN v THEN v.key ELSE Undef

\* String(v)
StringOf(v) ==
  IF v.t = "undef" THEN "undefined" ELSE IF v.t = "null" THEN "null" ELSE JsToString(v)

\* text != v, the loose comparison of a node value with a string or number:
\* a number is compared with the string converted to a number
LooseNotEq(text, v) ==
  IF v.t = "num" THEN ~((text = "" /\ v.n = 0) \/ text = NumToString(v.n))
  ELSE text # v.s

\* String.prototype.trim on the strings of the model
Trim(s) == IF s = " " THEN "" ELSE s

nextSibling(w, node) ==
  LET p == w.nodes[node].parent
  IN IF p = 0 THEN 0
     ELSE childNodes(w, p, IndexOf(w.nodes[p].kids, node))

\* s with x put in before position i
InsertAt(s, i, x) == SubSeq(s, 1, i - 1) \o <<x>> \o SubSeq(s, i, Len(s))

\* parent.insertBefore(child, ref), ref a child of parent
insertBefore(w, parent, child, ref) ==
  IF w.err THEN w
  ELSE IF parent = 0 \/ child = 0 THEN Throw(w)
  ELSE IF ref = 0 THEN appendChild(w, parent, child)
  ELSE IF w.nodes[ref].parent # parent THEN Throw(w)
  ELSE IF child = ref THEN w
  ELSE LET d == Detach(w, child)
       IN [d EXCEPT
             !.nodes[parent].kids = InsertAt(@, IndexOf(@, ref), child),
             !.nodes[child].parent = parent,
             !.muts = @ + 1]

\* element.removeAttribute(name)
removeAttribute(w, el, name) == [w EXCEPT !.nodes[el].attrs[name] = Absent]

isNamedNode(w, node, nodeName) ==
  \/ w.nodes[node].norm = nodeName
  \/ ToLower(w.nodes[node].name) = ToLower(nodeName)

isSameNodeType(w, node, vnode, hydrating) ==
  IF vnode.t \in {"str", "num"} THEN w.nodes[node].kind = "text"
  ELSE IF TypeOf(NodeNameProp(vnode)) = "string"
  THEN w.nodes[node].ctor = "" /\ isNamedNode(w, node, NodeNameProp(vnode).s)
  ELSE hydrating
         \/ (IF w.nodes[node].ctor = "" THEN NodeNameProp(vnode) = Undef
             ELSE NodeNameProp(vnode) = Ctor(w.nodes[node].ctor))

\* createNode(nodeName, isSvg) outside SVG
createNode(w, nodeName) ==
  LET w1 == createElement(w, nodeName)
  IN [w1 EXCEPT !.nodes[LastId(w1)].norm = nodeName]

removeNode(w, node) ==
  IF w.err THEN w
  ELSE IF w.nodes[node].parent # 0 THEN removeChild(w, w.nodes[node].parent, node)
  ELSE w

\* element.removeEventListener(type, fn)
removeEventListener(w, el, type, fn) ==
  [w EXCEPT !.nodes[el].listeners = @ \ {[type |-> type, fn |-> fn.id]}]

\* the one function Preact registers as a listener; it calls
\* this._listeners[e.type]
eventProxy == Fn(0, "eventProxy")
\* name[0] == 'o' && name[1] == 'n', and name.toLowerCase().substring(2)
IsEventName(name) == name \in {"onclick"}
EventType(name) == CASE name = "onclick" -> "click"
EventTypes == {"click"}
\* if (value), for the values of the model
Truthy(value) ==
  CASE value.t \in {"undef", "null", "absent"} -> FALSE
    [] value.t = "bool" -> value.b
    [] value.t = "num" -> value.n # 0
    [] value.t = "str" -> value.s # ""
    [] OTHER -> TRUE

\* setAccessor(node, name, old, value) for the names of the model: key is
\* skipped, ref is applied, a name that begins with on is an event
\* handler, any other name is a plain attribute
setAccessor(w, node, name, old, value) ==
  IF name = "key" THEN w
  ELSE IF name = "ref" THEN applyRef(applyRef(w, old, Null), value, NodeRef(node))
  ELSE IF IsEventName(name)
  THEN LET type == EventType(name)
           w1 == IF Truthy(value)
                 THEN (IF ~Truthy(old) THEN addEventListener(w, node, type, eventProxy)
                       ELSE w)
                 ELSE removeEventListener(w, node, type, eventProxy)
       IN [w1 EXCEPT !.nodes[node].handlers =
             [(IF @ = Absent THEN [e \in EventTypes |-> Absent] ELSE @)
                EXCEPT ![type] = value]]
  ELSE IF IsNullish(value) \/ value = Bool(FALSE) THEN removeAttribute(w, node, name)
  ELSE IF value.t # "fn" THEN setAttribute(w, node, name, value)
  ELSE w

RECURSIVE diffAttributesOld(_, _, _, _), diffAttributesNew(_, _, _, _)
\* the first loop left out: nothing is removed
diffAttributesKeep(w, domNode, attrs, names) == w
\* for (name in old): a cached key that attrs no longer holds is removed
diffAttributesOld(w, domNode, attrs, names) ==
  IF names = {} THEN w
  ELSE LET name == CHOOSE n \in names : TRUE
           old == w.nodes[domNode].pattr
           gone ==
             /\ ~(attrs # Undef /\ ~IsNullish(Get(attrs, name)))
             /\ ~IsNullish(Get(old, name))
           w1 == IF gone
                 THEN setAccessor([w EXCEPT !.nodes[domNode].pattr[name] = Undef],
                                  domNode, name, old[name], Undef)
                 ELSE w
       IN diffAttributesOld(w1, domNode, attrs, names \ {name})
\* for (name in attrs): a key that is new or whose value is not the cached
\* one is applied and cached
diffAttributesNew(w, domNode, attrs, names) ==
  IF names = {} THEN w
  ELSE LET name == CHOOSE n \in names : TRUE
           old == w.nodes[domNode].pattr
           apply == old[name] = Absent \/ ~StrictEq(attrs[name], old[name])
           w1 == IF apply
                 THEN setAccessor([w EXCEPT !.nodes[domNode].pattr[name] = attrs[name]],
                                  domNode, name, Get(old, name), attrs[name])
                 ELSE w
       IN diffAttributesNew(w1, domNode, attrs, names \ {name})

\* attrs as an object over the keys of the cache
OverPropKeys(attrs) ==
  [k \in PropKeys \cup AttrKeys |-> IF k \in DOMAIN attrs THEN attrs[k] ELSE Absent]

\* diffAttributes(dom, attrs, old), old being dom.__preactattr_
diffAttributes(w, domNode, attrs0) ==
  IF w.err THEN w
  ELSE LET attrs == IF attrs0 \in {Undef, Null} THEN Undef ELSE OverPropKeys(attrs0)
           w1 == diffAttributesOld(w, domNode, attrs, Keys(w.nodes[domNode].pattr))
       IN IF attrs = Undef THEN w1
          ELSE diffAttributesNew(w1, domNode, attrs, Keys(attrs))

\* the node's __preactattr_ is set (true on a text node, an object on an element)
HasProps(w, node) == w.nodes[node].pattr # Absent

\* props.key of a node's __preactattr_
CachedKey(w, node) ==
  IF w.nodes[node].pattr = Bool(TRUE) THEN Undef ELSE Get(w.nodes[node].pattr, "key")

\* the property name a key is stored under in the object keyed
KeyName(key) == StringOf(key)

\* the property names of keyed, in the order for (i in keyed) visits them
KeyNames == <<"0", "1", "2", "3", "4", "5", "6", "7", "8", "9">>
NoKeyed == [k \in {KeyNames[i] : i \in 1 .. Len(KeyNames)} |-> 0]

RECURSIVE Call(_, _), innerDiffNew(_, _, _, _, _, _, _), removeKids(_, _, _),
          recollectKeyed(_, _, _), recollectUnkeyed(_, _, _, _), moveKids(_, _, _)

\* while (domNode.firstChild) out.appendChild(domNode.firstChild)
moveKids(w, domNode, out) ==
  IF w.err \/ firstChild(w, domNode) = 0 THEN w
  ELSE moveKids(appendChild(w, out, firstChild(w, domNode)), domNode, out)

\* a node that is not matched is left where it is
recollectNone(w, node, unmountOnly) == w
\* recollectNodeTree(node, unmountOnly)
recollectNodeTree(w, node, unmountOnly) ==
  IF w.err THEN w
  ELSE IF w.nodes[node].comp # 0 THEN Call("unmountComponent", <<w, w.nodes[node].comp>>)
  ELSE LET pattr == w.nodes[node].pattr
           w0 == IF pattr \in {Absent, Bool(TRUE)} THEN w
                 ELSE applyRef(w, pattr["ref"], Null)
           w1 == IF unmountOnly = FALSE \/ ~HasProps(w, node)
                 THEN removeNode(w0, node) ELSE w0
       IN Call("removeChildren", <<w1, node>>)

\* removeChildren(node): from the last child to the first
removeChildren(w, node) == removeKids(w, w.nodes[node].kids, Len(w.nodes[node].kids))
removeKids(w, kids, i) ==
  IF w.err \/ i = 0 THEN w
  ELSE removeKids(Call("recollectNodeTree", <<w, kids[i], TRUE>>), kids, i - 1)

\* the first loop with every key read as null: all children go to the pool
SortedChildrenNoKeys(w, domNode, vlen, isHydrating) ==
  LET kids == w.nodes[domNode].kids
      pool == SelectSeq(kids, LAMBDA c :
                \/ HasProps(w, c)
                \/ IF w.nodes[c].kind = "text"
                   THEN (IF isHydrating THEN Trim(w.nodes[c].value) # "" ELSE TRUE)
                   ELSE isHydrating)
  IN [children |-> pool, keyed |-> NoKeyed, keyedLen |-> 0, min |-> 0,
      childrenLen |-> Len(pool)]
\* the first loop of innerDiffNode: the live children sorted into keyed and
\* the dense pool children
SortedChildren(w, domNode, vlen, isHydrating) ==
  LET kids == w.nodes[domNode].kids
      KeyOf(c) ==
        IF vlen # 0 /\ HasProps(w, c)
        THEN (IF w.nodes[c].comp # 0 THEN w.comps[w.nodes[c].comp].key
              ELSE CachedKey(w, c))
        ELSE Null
      Pooled(c) ==
        \/ HasProps(w, c)
        \/ IF w.nodes[c].kind = "text"
           THEN (IF isHydrating THEN Trim(w.nodes[c].value) # "" ELSE TRUE)
           ELSE isHydrating
      Step(L, c) ==
        IF ~IsNullish(KeyOf(c))
        THEN [L EXCEPT !.keyedLen = @ + 1, !.keyed[KeyName(KeyOf(c))] = c]
        ELSE IF Pooled(c)
        THEN [L EXCEPT !.children = Append(@, c), !.childrenLen = @ + 1]
        ELSE L
      Loop[i \in 0 .. Len(kids)] ==
        IF i = 0
        THEN [children |-> <<>>, keyed |-> NoKeyed, keyedLen |-> 0, min |-> 0,
              childrenLen |-> 0]
        ELSE Step(Loop[i - 1], kids[i])
  IN Loop[Len(kids)]

\* children[j], undefined (0) past the end of the array
PoolAt(L, j) == IF j < Len(L.children) THEN L.children[j + 1] ELSE 0

\* the second loop of innerDiffNode, from the new child i on
innerDiffNew(w, domNode, vchildren, mountAll, isHydrating, L, i) ==
  IF w.err \/ i >= Len(vchildren) THEN [w |-> w, L |-> L]
  ELSE IF IsNullish(vchildren[i + 1]) THEN [w |-> Throw(w), L |-> L]   \* vchild.key
  ELSE
    LET vchild == vchildren[i + 1]
        key == KeyProp(vchild)
        \* f = originalChildren[i]; the node id is put where f is
        Place(rw, id, f) ==
          IF rw.err THEN rw
          ELSE IF id # 0 /\ id # domNode /\ id # f
          THEN (IF f = 0 THEN appendChild(rw, domNode, id)
                ELSE IF id = nextSibling(rw, f) THEN removeNode(rw, f)
                ELSE insertBefore(rw, domNode, id, f))
          ELSE rw
        Placed(r) == Place(r.w, r.id, childNodes(r.w, domNode, i))
        \* child = idiff(child, vchild, context, mountAll), then the next i
        Found(child, L1) ==
          innerDiffNew(Placed(Call("idiff", <<w, child, vchild, mountAll, FALSE>>)),
                       domNode, vchildren, mountAll, isHydrating, L1, i + 1)
        Take(j) ==
          Found(PoolAt(L, j),
                [L EXCEPT
                   !.children[j + 1] = 0,
                   !.childrenLen = IF j = L.childrenLen - 1 THEN @ - 1 ELSE @,
                   !.min = IF j = L.min THEN @ + 1 ELSE @])
        Search(js) ==
          IF js = {} THEN Found(0, L)
          ELSE Take(CHOOSE x \in js : \A y \in js : x <= y)
    IN IF ~IsNullish(key)
       THEN (IF L.keyedLen # 0 /\ L.keyed[KeyName(key)] # 0
             THEN Found(L.keyed[KeyName(key)],
                        [L EXCEPT !.keyed[KeyName(key)] = 0, !.keyedLen = @ - 1])
             ELSE Found(0, L))
       ELSE Search({j \in L.min .. L.childrenLen - 1 :
                      PoolAt(L, j) # 0
                        /\ isSameNodeType(w, PoolAt(L, j), vchild, isHydrating)})

\* for (i in keyed) if (keyed[i] !== undefined) recollectNodeTree(keyed[i], false)
recollectKeyed(w, keyed, i) ==
  IF w.err \/ i > Len(KeyNames) THEN w
  ELSE recollectKeyed(
         IF keyed[KeyNames[i]] # 0
         THEN Call("recollectNodeTree", <<w, keyed[KeyNames[i]], FALSE>>) ELSE w,
         keyed, i + 1)

\* while (min <= childrenLen)
\*   if ((child = children[childrenLen--]) !== undefined) recollectNodeTree(child, false)
recollectUnkeyed(w, L, min, childrenLen) ==
  IF w.err \/ min > childrenLen THEN w
  ELSE recollectUnkeyed(
         IF PoolAt(L, childrenLen) # 0
         THEN Call("recollectNodeTree", <<w, PoolAt(L, childrenLen), FALSE>>) ELSE w,
         L, min, childrenLen - 1)

\* innerDiffNode(domNode, vchildren, context, mountAll, isHydrating)
innerDiffNode(w, domNode, vchildren, mountAll, isHydrating) ==
  IF w.err THEN w
  ELSE LET L0 == SortedChildren(w, domNode, Len(vchildren), isHydrating)
           r == innerDiffNew(w, domNode, vchildren, mountAll, isHydrating, L0, 0)
           w1 == IF r.L.keyedLen # 0 THEN recollectKeyed(r.w, r.L.keyed, 1) ELSE r.w
       IN recollectUnkeyed(w1, r.L, r.L.min, r.L.childrenLen)

\* idiff(dom, vnode, context, mountAll, componentRoot): [w, id], id the
\* node that stands for vnode
idiff(w, domNode, vnode0, mountAll, componentRoot) ==
  LET vnode == IF IsNullish(vnode0) \/ vnode0.t = "bool" THEN Str("") ELSE vnode0
      \* the new text node, the last of w1, takes the place of dom
      Text(w1) ==
        [w |-> [(IF domNode # 0
                 THEN Call("recollectNodeTree",
                           <<IF w1.nodes[domNode].parent # 0
                             THEN replaceChild(w1, w1.nodes[domNode].parent,
                                               LastId(w1), domNode)
                             ELSE w1,
                             domNode, TRUE>>)
                 ELSE w1) EXCEPT !.nodes[LastId(w1)].pattr = Bool(TRUE)],
         id |-> LastId(w1)]
      \* props == null: the cache is built from the element's attributes
      Cached(w2, out) ==
        IF w2.nodes[out].pattr = Absent
        THEN [w2 EXCEPT !.nodes[out].pattr = OverPropKeys(w2.nodes[out].attrs)]
        ELSE w2
      Children(w3, out, fc, vchildren) ==
        IF /\ ~w3.hydrating
           /\ Len(vchildren) = 1
           /\ vchildren[1].t = "str"
           /\ fc # 0
           /\ w3.nodes[fc].kind = "text"
           /\ nextSibling(w3, fc) = 0
        THEN [w3 EXCEPT
                !.nodes[fc].value =
                  IF LooseNotEq(@, vchildren[1]) THEN vchildren[1].s ELSE @]
        ELSE IF Len(vchildren) # 0 \/ fc # 0
        THEN Call("innerDiffNode", <<w3, out, vchildren, mountAll, w3.hydrating>>)
        ELSE w3
      \* the element out of w2 is given the children and the attributes
      Element(w2, out) ==
        IF w2.err THEN [w |-> w2, id |-> 0]
        ELSE [w |-> diffAttributes(
                      Children(Cached(w2, out), out, firstChild(w2, out),
                               vnode.children),
                      out, vnode.attributes),
              id |-> out]
      \* the children of dom have moved to out in m: out takes the place of dom
      Replaced(m, out) ==
        Call("recollectNodeTree",
             <<IF m.nodes[domNode].parent # 0
               THEN replaceChild(m, m.nodes[domNode].parent, out, domNode)
               ELSE m,
               domNode, TRUE>>)
      \* the new element is the last node of w1
      Created(w1) ==
        Element(IF domNode # 0
                THEN Replaced(moveKids(w1, domNode, LastId(w1)), LastId(w1))
                ELSE w1,
                LastId(w1))
  IN
  IF w.err THEN [w |-> w, id |-> 0]
  ELSE IF vnode.t \in {"str", "num"} THEN
    IF /\ domNode # 0
       /\ w.nodes[domNode].kind = "text"
       /\ w.nodes[domNode].parent # 0
       /\ (w.nodes[domNode].comp = 0 \/ componentRoot)
    THEN [w |-> [w EXCEPT
                   !.nodes[domNode].value =
                     IF LooseNotEq(@, vnode) THEN StringOf(vnode) ELSE @,
                   !.nodes[domNode].pattr = Bool(TRUE)],
          id |-> domNode]
    ELSE Text(createTextNode(w, StringOf(vnode)))
  ELSE IF TypeOf(NodeNameProp(vnode)) = "function"
  THEN Call("buildComponentFromVNode", <<w, domNode, vnode, mountAll>>)
  ELSE IF domNode = 0 \/ ~isNamedNode(w, domNode, StringOf(NodeNameProp(vnode)))
  THEN Created(createNode(w, StringOf(NodeNameProp(vnode))))
  ELSE Element(w, domNode)

-----------------------------------------------------------------------------
(* Preact: components *)

\* the lifecycle hook name of the instance c runs with the argument arg;
\* the log keeps diffLevel and the number of renderComponent calls on c
\* that are in progress as the hook runs. The log also keeps, under the
\* names renderComponent, pop and forceUpdate, the calls of renderComponent
\* that pass its guard, the components rerender pops and the forceUpdate
\* calls the hooks make
\* Each instance also keeps what its hooks have been through: the number
\* of componentWillMount calls (counted up to 2), whether render has run,
\* whether componentWillUnmount has run, and whether a hook ever ran out of
\* turn
UpdateHooks ==
  {"componentWillReceiveProps", "shouldComponentUpdate", "componentWillUpdate",
   "componentDidUpdate"}
NoLife ==
  [mounts |-> 0, rendered |-> FALSE, dead |-> FALSE, lateMount |-> FALSE,
   baseless |-> FALSE, undead |-> FALSE, posthumous |-> FALSE]
Lived(inst, name) ==
  LET l == inst.life
  IN [mounts |-> IF name = "componentWillMount" /\ l.mounts < 2
                 THEN l.mounts + 1 ELSE l.mounts,
      rendered |-> l.rendered \/ name = "render",
      dead |-> l.dead \/ name = "componentWillUnmount",
      lateMount |-> l.lateMount \/ (name = "componentWillMount" /\ l.rendered),
      baseless |-> l.baseless
                     \/ (name \in UpdateHooks /\ (inst.base = 0 \/ ~l.rendered)),
      undead |-> l.undead
                   \/ (l.dead /\ name \in UpdateHooks \cup {"render"}),
      posthumous |-> l.posthumous \/ (l.dead /\ name = "componentDidMount")]
Hook(w, name, c, arg) ==
  [w EXCEPT !.log = Append(@, [h |-> name, c |-> c, level |-> w.diffLevel,
                               active |-> w.comps[c].active, arg |-> arg]),
            !.comps[c].life = Lived(w.comps[c], name)]

\* the keys of the state of a component
StateKeys == {"x", "scu", "ping", "force", "boom"}
NoState == [k \in StateKeys |-> Absent]

\* extend(obj, props): the properties of props copied over obj
extend(obj, props) ==
  [k \in DOMAIN obj |-> IF props[k] # Absent THEN props[k] ELSE obj[k]]

\* the components of the scenarios, each a class with every lifecycle hook:
\* X renders a paragraph with state.x as its text, W renders X with the
\* key it is given as props.a, V renders a div around W and hands its
\* props.a down
RenderOf(ctor, props, state) ==
  IF ctor = "W"
  THEN pNode(Ctor("X"), [NoProps EXCEPT !["key"] = Get(props, "a")], <<>>)
  ELSE IF ctor = "V"
  THEN pNode(Str("div"), Undef,
             <<pNode(Ctor("W"), [NoProps EXCEPT !["a"] = Get(props, "a")], <<>>)>>)
  ELSE pNode(Str("p"), Undef,
             <<IF state["x"] = Absent THEN Str("x") ELSE state["x"]>>)

\* getNodeProps(vnode): a copy of the attributes (no component of the model
\* reads props.children or has defaultProps)
getNodeProps(vnode) ==
  IF vnode.attributes = Undef THEN NoProps ELSE vnode.attributes

\* a == b on keys
LooseEq(a, b) ==
  IF IsNullish(a) \/ IsNullish(b) THEN IsNullish(a) /\ IsNullish(b)
  ELSE JsToString(a) = JsToString(b)

\* what Component(props, context) leaves in a new instance; _component is
\* 0 while undefined and -1 once set to null
\* busy is the flag the class of the scenarios keeps around its own
\* forceUpdate; active counts the renderComponent calls in progress, shown
\* is the state the last render call was given, settled the state the
\* last renderComponent call left
NewInst(ctor, props) ==
  [ctor |-> ctor, props |-> props, key |-> Undef, base |-> 0, nextBase |-> 0,
   inner |-> 0, parentComp |-> 0, disable |-> FALSE, dirty |-> TRUE,
   state |-> NoState, prevState |-> Null, prevProps |-> Null,
   callbacks |-> <<>>, ref |-> Undef, busy |-> FALSE, active |-> 0,
   shown |-> Null, settled |-> Null, life |-> NoLife]

\* createComponent(Ctor, props, context): [w, c]
createComponent(w, ctor, props) ==
  LET c == Len(w.comps) + 1
      w1 == [w EXCEPT !.comps = Append(@, NewInst(ctor, props))]
      hits == {i \in 1 .. Len(w.recycler) : w.comps[w.recycler[i]].ctor = ctor}
      i == CHOOSE x \in hits : \A y \in hits : y <= x
  IN IF hits = {} THEN [w |-> w1, c |-> c]
     ELSE [w |-> [w1 EXCEPT
                    !.comps[c].nextBase = w.comps[w.recycler[i]].nextBase,
                    !.recycler = RemoveAt(@, i)],
           c |-> c]

\* componentDidMount of the scenarios:
\*   if (this.props.a === 'again') render(h('div'), $root, $root.firstChild)
Again == Str("again")
componentDidMount(w, c) ==
  LET w1 == Hook(w, "componentDidMount", c, Null)
  IN IF Get(w.comps[c].props, "a") = Again
     THEN Call("render_1", <<w1, pNode(Str("div"), Undef, <<>>), Root,
                             firstChild(w1, Root)>>)
     ELSE w1

RECURSIVE flushMountsLifo(_), flushMounts(_)
\* flushMounts with pop in the place of shift
flushMountsLifo(w) ==
  IF w.err \/ w.mounts = <<>> THEN w
  ELSE flushMountsLifo(componentDidMount([w EXCEPT !.mounts = SubSeq(@, 1, Len(@) - 1)],
                                         w.mounts[Len(w.mounts)]))
\* while (c = mounts.shift()) if (c.componentDidMount) c.componentDidMount()
flushMounts(w) ==
  IF w.err \/ w.mounts = <<>> THEN w
  ELSE flushMounts(componentDidMount([w EXCEPT !.mounts = Tail(@)], Head(w.mounts)))

\* diff$1(dom, vnode, context, mountAll, parent, componentRoot): [w, id]
diff_1(w, domNode, vnode, mountAll, parent, componentRoot) ==
  LET \* if (!--diffLevel) { hydrating = false; if (!componentRoot) flushMounts() }
      Leave(w3) ==
        IF w3.diffLevel # 0 THEN w3
        ELSE IF componentRoot THEN [w3 EXCEPT !.hydrating = FALSE]
        ELSE flushMounts([w3 EXCEPT !.hydrating = FALSE])
      Attached(w2, id) ==
        IF w2.err THEN [w |-> w2, id |-> 0]
        ELSE [w |-> Leave([w2 EXCEPT !.diffLevel = @ - 1]), id |-> id]
      \* ret = idiff(...); an exception leaves with diffLevel as it is
      Ret(r) ==
        IF r.w.err THEN [w |-> r.w, id |-> 0]
        ELSE Attached(IF parent # 0 /\ r.w.nodes[r.id].parent # parent
                      THEN appendChild(r.w, parent, r.id)
                      ELSE r.w,
                      r.id)
  IN IF w.err THEN [w |-> w, id |-> 0]
     ELSE Ret(Call("idiff",
                   <<[w EXCEPT
                        !.hydrating = IF w.diffLevel = 0
                                      THEN domNode # 0 /\ ~HasProps(w, domNode)
                                      ELSE @,
                        !.diffLevel = @ + 1],
                     domNode, vnode, mountAll, componentRoot>>))

\* items.push(component) and defer(rerender) for the first of the queue
enqueueRender(w, c) ==
  IF w.comps[c].dirty THEN w
  ELSE [w EXCEPT !.comps[c].dirty = TRUE,
                 !.items = Append(@, c),
                 !.timers = IF w.items = <<>> THEN @ + 1 ELSE @]

\* the updates of the scenarios: an object, or the updater function inc,
\* (state) => ({ x: (state.x || 0) + 1 })
Obj(o) == [t |-> "obj", o |-> o]
Inc == [t |-> "fn", id |-> "inc", src |-> "inc"]
Apply(update, state) ==
  IF update.t = "fn"
  THEN [NoState EXCEPT !["x"] = Num((IF state["x"] = Absent THEN 0 ELSE state["x"].n) + 1)]
  ELSE update.o

\* setState without the merge: the update takes the place of the state
setStateNoMerge(w, c, update, callback) ==
  enqueueRender(
    [w EXCEPT !.comps[c].prevState = IF @ = Null THEN w.comps[c].state ELSE @,
              !.comps[c].state = Apply(update, @),
              !.comps[c].callbacks = IF callback # 0 THEN Append(@, callback) ELSE @],
    c)
\* component.setState(state, callback); callback 0 is no callback
setState(w, c, update, callback) ==
  enqueueRender(
    [w EXCEPT !.comps[c].prevState = IF @ = Null THEN w.comps[c].state ELSE @,
              !.comps[c].state = extend(@, Apply(update, @)),
              !.comps[c].callbacks = IF callback # 0 THEN Append(@, callback) ELSE @],
    c)

\* forceUpdate without the render mode 2 that forces the render
forceUpdateNoForce(w, c, callback) ==
  Call("renderComponent",
       <<[w EXCEPT !.comps[c].callbacks = IF callback # 0 THEN Append(@, callback) ELSE @],
         c, 0, FALSE, FALSE>>)
\* component.forceUpdate(callback)
forceUpdate(w, c, callback) ==
  Call("renderComponent",
       <<[w EXCEPT !.comps[c].callbacks = IF callback # 0 THEN Append(@, callback) ELSE @],
         c, 2, FALSE, FALSE>>)

\* the peer of c in the scenarios: the mounted instance of lowest index
\* that has the class of c and is not c, 0 if there is none
Peer(w, c) ==
  LET ps == {i \in 1 .. Len(w.comps) :
               i # c /\ w.comps[i].ctor = w.comps[c].ctor /\ w.comps[i].base # 0}
  IN IF ps = {} THEN 0 ELSE CHOOSE i \in ps : \A j \in ps : i <= j

\* componentWillReceiveProps of the scenarios:
\*   if (this.state.force) this.forceUpdate()
componentWillReceiveProps(w, c) ==
  IF w.comps[c].state["force"] = Bool(TRUE)
  THEN Call("forceUpdate", <<Hook(Hook(w, "componentWillReceiveProps", c, Null),
                                  "forceUpdate", c, Null), c, 0>>)
  ELSE Hook(w, "componentWillReceiveProps", c, Null)

\* throw new Error() in a hook: nothing catches it
RaiseCaught(w) ==
  [w EXCEPT !.thrown = [on |-> TRUE, nodes |-> w.nodes, at |-> Len(w.log)]]
Raise(w) ==
  [w EXCEPT !.err = TRUE,
            !.thrown = [on |-> TRUE, nodes |-> w.nodes, at |-> Len(w.log)]]

\* componentWillUpdate of the scenarios:
\*   if (nextState.boom === 1) throw new Error()
\*   if (nextState.force && !this.busy)
\*     { this.busy = true; this.forceUpdate(); this.busy = false }
componentWillUpdate(w, c, state) ==
  LET Idle(r) == IF r.err THEN r ELSE [r EXCEPT !.comps[c].busy = FALSE]
  IN IF state["boom"] = Num(1)
     THEN Raise(Hook(w, "componentWillUpdate", c, state))
     ELSE IF state["force"] = Bool(TRUE) /\ ~w.comps[c].busy
     THEN Idle(Call("forceUpdate",
                    <<Hook(Hook([w EXCEPT !.comps[c].busy = TRUE],
                                "componentWillUpdate", c, state),
                           "forceUpdate", c, Null), c, 0>>))
     ELSE Hook(w, "componentWillUpdate", c, state)

\* componentDidUpdate of the scenarios:
\*   if (this.state.boom === 2) throw new Error()
\*   if (this.state.ping > 0 && peer) peer.setState({ ping: this.state.ping - 1 })
componentDidUpdate(w, c, previousState) ==
  LET ping == w.comps[c].state["ping"]
  IN IF w.comps[c].state["boom"] = Num(2)
     THEN Raise(Hook(w, "componentDidUpdate", c, previousState))
     ELSE IF ping # Absent /\ ping.n > 0 /\ Peer(w, c) # 0
     THEN setState(Hook(w, "componentDidUpdate", c, previousState), Peer(w, c),
                   Obj([NoState EXCEPT !["ping"] = Num(ping.n - 1)]), 0)
     ELSE Hook(w, "componentDidUpdate", c, previousState)

RECURSIVE RunCallbacks(_, _)
\* while (component._renderCallbacks.length)
\*   component._renderCallbacks.pop().call(component)
RunCallbacks(w, c) ==
  IF w.err \/ w.comps[c].callbacks = <<>> THEN w
  ELSE LET cbs == w.comps[c].callbacks
       IN RunCallbacks(Hook([w EXCEPT !.comps[c].callbacks = SubSeq(cbs, 1, Len(cbs) - 1)],
                            "callback", c, Num(cbs[Len(cbs)])),
                       c)

\* setComponentProps(component, props, renderMode, context, mountAll)
setComponentProps(w, c, props, renderMode, mountAll) ==
  IF w.err \/ w.comps[c].disable THEN w
  ELSE
    LET \* applyRef(component.__ref, component)
        Done(w4) == IF w4.err THEN w4 ELSE applyRef(w4, w4.comps[c].ref, CompRef(c))
        \* options.syncComponentUpdates is undefined: the render is never queued
        Assigned(w2) ==
          IF renderMode # 0
          THEN Done(Call("renderComponent",
                         <<[w2 EXCEPT
                              !.comps[c].prevProps = IF @ = Null THEN w2.comps[c].props ELSE @,
                              !.comps[c].props = [props EXCEPT !["key"] = Absent,
                                                               !["ref"] = Absent],
                              !.comps[c].disable = FALSE],
                           c, 1, mountAll, FALSE>>))
          ELSE Done([w2 EXCEPT
                       !.comps[c].prevProps = IF @ = Null THEN w2.comps[c].props ELSE @,
                       !.comps[c].props = [props EXCEPT !["key"] = Absent,
                                                        !["ref"] = Absent],
                       !.comps[c].disable = FALSE])
        Disabled(w1) ==
          IF w1.comps[c].base = 0 \/ mountAll
          THEN Assigned(Hook(w1, "componentWillMount", c, Null))
          ELSE Assigned(componentWillReceiveProps(w1, c))
    IN Disabled([w EXCEPT !.comps[c].disable = TRUE,
                          !.comps[c].ref = Get(props, "ref"),
                          !.comps[c].key = Get(props, "key")])

\* skip on any falsy result of shouldComponentUpdate
skipUpdateFalsy(returned) == returned \in {Bool(FALSE), Num(0), Undef, Null, Str("")}
\* skip = true: shouldComponentUpdate(props, state, context) === false
skipUpdate(returned) == returned = Bool(FALSE)

RECURSIVE SetBases(_, _, _)
\* while (t = t._parentComponent) (componentRef = t).base = base
SetBases(w, t, base) ==
  IF w.comps[t].parentComp = 0 THEN [w |-> w, ref |-> t]
  ELSE SetBases([w EXCEPT !.comps[w.comps[t].parentComp].base = base],
                w.comps[t].parentComp, base)

\* renderComponent(component, renderMode, mountAll, isChild)
renderComponent(w, c, renderMode, mountAll, isChild) ==
  IF w.err \/ w.comps[c].disable THEN w
  ELSE
    LET props == w.comps[c].props
        state == w.comps[c].state
        previousProps == IF w.comps[c].prevProps = Null THEN props
                         ELSE w.comps[c].prevProps
        previousState == IF w.comps[c].prevState = Null THEN state
                         ELSE w.comps[c].prevState
        isUpdate == w.comps[c].base
        nextBase == w.comps[c].nextBase
        initialBase == IF isUpdate # 0 THEN isUpdate ELSE nextBase
        initialChildComponent == w.comps[c].inner
        rendered == RenderOf(w.comps[c].ctor, props, state)
        childComponent == rendered.nodeName
        childProps == getNodeProps(rendered)
        \* outside any diff, flushMounts()
        Flushed(w7) ==
          IF w7.err THEN w7
          ELSE IF w7.diffLevel = 0 /\ ~isChild
          THEN [flushMounts(w7) EXCEPT !.comps[c].active = @ - 1]
          ELSE [w7 EXCEPT !.comps[c].active = @ - 1]
        \* mounts.push(component) or componentDidUpdate, then the callbacks
        Finish(w5, skip) ==
          IF isUpdate = 0 \/ mountAll
          THEN Flushed(RunCallbacks([w5 EXCEPT !.mounts = Append(@, c)], c))
          ELSE IF ~skip
          THEN Flushed(RunCallbacks(componentDidUpdate(w5, c, previousState), c))
          ELSE Flushed(RunCallbacks(w5, c))
        \* base._component = componentRef, the outermost owner
        Owned(b, base) ==
          [b.w EXCEPT !.nodes[base].comp = b.ref,
                      !.nodes[base].ctor = b.w.comps[b.ref].ctor]
        Based(w3, base) ==
          IF w3.err THEN w3
          ELSE IF base # 0 /\ ~isChild
          THEN Finish(Owned(SetBases([w3 EXCEPT !.comps[c].base = base], c, base),
                            base),
                      FALSE)
          ELSE Finish([w3 EXCEPT !.comps[c].base = base], FALSE)
        Unmounted(w2, R) ==
          Based(IF R.toUnmount > 0
                THEN Call("unmountComponent", <<w2, R.toUnmount>>) ELSE w2,
                R.base)
        Recollected(wa, R) ==
          IF R.toUnmount > 0 \/ wa.err THEN wa
          ELSE Call("recollectNodeTree",
                    <<[wa EXCEPT !.nodes[initialBase].comp = 0], initialBase, FALSE>>)
        \* the new base takes the place of initialBase under baseParent
        Swapped(R, baseParent) ==
          IF /\ initialBase # 0
             /\ R.base # initialBase
             /\ R.inst # initialChildComponent
             /\ baseParent # 0
             /\ R.base # baseParent
          THEN Recollected(replaceChild(R.w, baseParent, R.base, initialBase), R)
          ELSE R.w
        \* R: the document, inst, base and toUnmount after the output is applied
        Applied(R) ==
          IF R.w.err THEN R.w
          ELSE Unmounted(Swapped(R, IF initialBase # 0
                                    THEN R.w.nodes[initialBase].parent ELSE 0),
                         R)
        Reused(wa) ==
          [w |-> wa, inst |-> initialChildComponent,
           base |-> wa.comps[initialChildComponent].base, toUnmount |-> 0]
        Child(wc, inst) ==
          [w |-> wc, inst |-> inst, base |-> wc.comps[inst].base,
           toUnmount |-> initialChildComponent]
        Created(n) ==
          Child(Call("renderComponent",
                     <<Call("setComponentProps",
                            <<[n.w EXCEPT
                                 !.comps[c].inner = n.c,
                                 !.comps[n.c].nextBase = IF @ # 0 THEN @ ELSE nextBase,
                                 !.comps[n.c].parentComp = c],
                              n.c, childProps, 0, FALSE>>),
                       n.c, 1, mountAll, TRUE>>),
                n.c)
        Diffed(d) ==
          [w |-> d.w, inst |-> 0, base |-> d.id, toUnmount |-> initialChildComponent]
        Element(wa, cbase) ==
          IF initialBase # 0 \/ renderMode = 1
          THEN Diffed(Call("diff_1",
                           <<IF cbase # 0 THEN [wa EXCEPT !.nodes[cbase].comp = 0]
                             ELSE wa,
                             cbase, rendered, mountAll \/ isUpdate = 0,
                             IF initialBase # 0 THEN wa.nodes[initialBase].parent
                             ELSE 0,
                             TRUE>>))
          ELSE [w |-> wa, inst |-> 0, base |-> 0, toUnmount |-> initialChildComponent]
        Rendered(w1) ==
          IF TypeOf(childComponent) = "function"
          THEN (IF /\ initialChildComponent > 0
                   /\ w.comps[initialChildComponent].ctor = childComponent.id
                   /\ LooseEq(Get(childProps, "key"), w.comps[initialChildComponent].key)
                THEN Reused(Call("setComponentProps",
                                 <<w1, initialChildComponent, childProps, 1, FALSE>>))
                ELSE Created(createComponent(w1, childComponent.id, childProps)))
          ELSE IF initialChildComponent > 0
          THEN Element([w1 EXCEPT !.comps[c].inner = -1], 0)
          ELSE Element(w1, initialBase)
        \* prevProps = prevState = nextBase = null, _dirty = false; then
        \* component.render(props, state) unless skip
        Cleared(w1, skip) ==
          IF w1.err THEN w1
          ELSE IF skip
          THEN Finish([w1 EXCEPT !.comps[c].props = props, !.comps[c].state = state,
                                 !.comps[c].prevProps = Null,
                                 !.comps[c].prevState = Null,
                                 !.comps[c].nextBase = 0, !.comps[c].dirty = FALSE,
                                 !.comps[c].settled = state],
                      TRUE)
          ELSE Applied(Rendered(Hook(
                 [w1 EXCEPT !.comps[c].props = props, !.comps[c].state = state,
                            !.comps[c].prevProps = Null,
                            !.comps[c].prevState = Null,
                            !.comps[c].nextBase = 0, !.comps[c].dirty = FALSE,
                            !.comps[c].settled = state, !.comps[c].shown = state],
                 "render", c, state)))
        \* on an update the hooks see the previous props and state on the
        \* instance: shouldComponentUpdate(props, state) of the scenarios
        \* returns state.scu
        Entered(w0) ==
          IF isUpdate = 0 THEN Cleared(w0, FALSE)
          ELSE IF renderMode # 2
          THEN (IF skipUpdate(Get(state, "scu"))
                THEN Cleared(Hook([w0 EXCEPT !.comps[c].props = previousProps,
                                            !.comps[c].state = previousState],
                                  "shouldComponentUpdate", c, state),
                             TRUE)
                ELSE Cleared(componentWillUpdate(
                               Hook([w0 EXCEPT !.comps[c].props = previousProps,
                                            !.comps[c].state = previousState],
                                    "shouldComponentUpdate", c, state),
                               c, state),
                             FALSE))
          ELSE Cleared(componentWillUpdate(
                         [w0 EXCEPT !.comps[c].props = previousProps,
                                            !.comps[c].state = previousState], c, state),
                       FALSE)
        \* an exception ends the call where it is
        Left(r) == IF r.err THEN [r EXCEPT !.comps[c].active = @ - 1] ELSE r
    IN Left(Entered(Hook([w EXCEPT !.comps[c].active = @ + 1],
                         "renderComponent", c, Null)))

RECURSIVE FindOwner(_, _, _, _)
\* while (c && !isOwner && (c = c._parentComponent))
\*   isOwner = c.constructor === vnode.nodeName
FindOwner(w, c, isOwner, ctor) ==
  IF c = 0 \/ isOwner \/ w.comps[c].parentComp = 0
  THEN [c |-> IF c # 0 /\ ~isOwner THEN 0 ELSE c, isOwner |-> isOwner]
  ELSE FindOwner(w, w.comps[c].parentComp,
                 w.comps[w.comps[c].parentComp].ctor = ctor, ctor)

\* buildComponentFromVNode(dom, vnode, context, mountAll): [w, id]
buildComponentFromVNode(w, domNode, vnode, mountAll) ==
  LET ctor == vnode.nodeName.id
      originalComponent == IF domNode # 0 THEN w.nodes[domNode].comp ELSE 0
      isDirectOwner == originalComponent # 0 /\ w.nodes[domNode].ctor = ctor
      props == getNodeProps(vnode)
      \* dom = c.base; what is left of oldDom is recollected
      Mounted(w3, c, oldDom) ==
        [w |-> IF ~w3.err /\ oldDom # 0 /\ w3.comps[c].base # oldDom
               THEN Call("recollectNodeTree",
                         <<[w3 EXCEPT !.nodes[oldDom].comp = 0], oldDom, FALSE>>)
               ELSE w3,
         id |-> w3.comps[c].base]
      \* the new instance n.c takes dom1 as nextBase unless it has one
      Created(n, dom1) ==
        IF dom1 # 0 /\ n.w.comps[n.c].nextBase = 0
        THEN Mounted(Call("setComponentProps",
                          <<[n.w EXCEPT !.comps[n.c].nextBase = dom1],
                            n.c, props, 1, mountAll>>),
                     n.c, 0)
        ELSE Mounted(Call("setComponentProps", <<n.w, n.c, props, 1, mountAll>>),
                     n.c, dom1)
      Reused(w1, c) == [w |-> w1, id |-> w1.comps[c].base]
      Owner(o) ==
        IF o.c # 0 /\ o.isOwner /\ (~mountAll \/ w.comps[o.c].inner > 0)
        THEN Reused(Call("setComponentProps", <<w, o.c, props, 3, mountAll>>), o.c)
        ELSE IF originalComponent # 0 /\ ~isDirectOwner
        THEN Created(createComponent(
                       Call("unmountComponent", <<w, originalComponent>>),
                       ctor, props),
                     0)
        ELSE Created(createComponent(w, ctor, props), domNode)
  IN IF w.err THEN [w |-> w, id |-> 0]
     ELSE Owner(FindOwner(w, originalComponent, isDirectOwner, ctor))

\* unmountComponent(component)
unmountComponent(w, c) ==
  IF w.err THEN w
  ELSE
    LET base == w.comps[c].base
        inner == w.comps[c].inner
        \* applyRef(component.__ref, null)
        Done(w3) == IF w3.err THEN w3 ELSE applyRef(w3, w3.comps[c].ref, Null)
        \* applyRef(base.__preactattr_.ref, null)
        Unref(w2) ==
          IF w2.nodes[base].pattr \in {Absent, Bool(TRUE)} THEN w2
          ELSE applyRef(w2, w2.nodes[base].pattr["ref"], Null)
        Unhooked(w2) ==
          IF inner > 0 THEN Done(Call("unmountComponent", <<w2, inner>>))
          ELSE IF base # 0
          THEN Done(Call("removeChildren", <<
                 [removeNode([Unref(w2) EXCEPT !.comps[c].nextBase = base], base)
                    EXCEPT !.recycler = Append(@, c)],
                 base>>))
          ELSE Done(w2)
    IN Unhooked([Hook([w EXCEPT !.comps[c].disable = TRUE],
                      "componentWillUnmount", c, Null)
                   EXCEPT !.comps[c].base = 0])

\* what the log keeps of a pop: the queue p is popped from, p._dirty and
\* p._disable
PopOf(w, p) ==
  [items |-> w.items, dirty |-> w.comps[p].dirty, disable |-> w.comps[p].disable]

\* p = items.pop()
PopLast(w) ==
  [Hook(w, "pop", w.items[Len(w.items)], PopOf(w, w.items[Len(w.items)]))
     EXCEPT !.items = SubSeq(@, 1, Len(@) - 1)]

RECURSIVE rerenderFifo(_)
\* rerender with shift in the place of pop
rerenderFifo(w) ==
  IF w.err \/ w.items = <<>> THEN w
  ELSE IF w.comps[Head(w.items)].dirty
  THEN rerenderFifo(Call("renderComponent",
                         <<[Hook(w, "pop", Head(w.items), PopOf(w, Head(w.items)))
                              EXCEPT !.items = Tail(@)],
                           Head(w.items), 0, FALSE, FALSE>>))
  ELSE rerenderFifo([Hook(w, "pop", Head(w.items), PopOf(w, Head(w.items)))
                       EXCEPT !.items = Tail(@)])
RECURSIVE rerender(_)
\* while (p = items.pop()) if (p._dirty) renderComponent(p)
rerender(w) ==
  IF w.err \/ w.items = <<>> THEN w
  ELSE IF w.comps[w.items[Len(w.items)]].dirty
  THEN rerender(Call("renderComponent",
                     <<PopLast(w), w.items[Len(w.items)], 0, FALSE, FALSE>>))
  ELSE rerender(PopLast(w))

\* render(vnode, parent, merge)
render_1(w, vnode, parent, merge) ==
  Call("diff_1", <<w, merge, vnode, FALSE, parent, FALSE>>).w

\* the call of the function named f with the arguments a; the functions
\* of the reconciler that call one another do so through it
Call(f, a) ==
  CASE f = "idiff" -> idiff(a[1], a[2], a[3], a[4], a[5])
    [] f = "innerDiffNode" -> innerDiffNode(a[1], a[2], a[3], a[4], a[5])
    [] f = "recollectNodeTree" -> recollectNodeTree(a[1], a[2], a[3])
    [] f = "removeChildren" -> removeChildren(a[1], a[2])
    [] f = "unmountComponent" -> unmountComponent(a[1], a[2])
    [] f = "buildComponentFromVNode" -> buildComponentFromVNode(a[1], a[2], a[3], a[4])
    [] f = "setComponentProps" -> setComponentProps(a[1], a[2], a[3], a[4], a[5])
    [] f = "renderComponent" -> renderComponent(a[1], a[2], a[3], a[4], a[5])
    [] f = "diff_1" -> diff_1(a[1], a[2], a[3], a[4], a[5], a[6])
    [] f = "forceUpdate" -> forceUpdate(a[1], a[2], a[3])
    [] f = "render_1" -> render_1(a[1], a[2], a[3], a[4])

-----------------------------------------------------------------------------
(* Observables: Observable, ObservableObject, ObservableList.  A callback  *)
(* of the scenarios is a number; calling it records the call.              *)

\* the values the scenarios keep in observables
ItemVals == {Num(0), Num(1), Str("1")}
\* the callbacks of the scenarios
ListenerIds == {1, 2}

\* callback(a, b): the record of the call
Called(cb, a, b) == [cb |-> cb, key |-> "", new |-> a, old |-> b]

\* listeners.forEach(notify => notify(newItem, oldItem))
forEach(listeners, a, b) ==
  [i \in 1 .. Len(listeners) |-> Called(listeners[i], a, b)]

\* Observable(item): the closure over item and listeners
Observable(item) == [item |-> item, listeners |-> <<>>]
Observable_get(o) == o.item
\* set without the guard
Observable_setAlways(o, newItem) ==
  [o |-> [o EXCEPT !.item = newItem],
   notes |-> forEach(o.listeners, newItem, o.item)]
\* the callback of the scenarios that sets the observable it listens to:
\*   n => { if (n === 1) observable.set(0) }
Resetting == 3
Resets(cb, a) == cb = Resetting /\ a = Num(1)

RECURSIVE Observable_run(_, _, _)
\* the calls that are still to make, those of the innermost forEach first:
\* a frame holds the callbacks left to call and the arguments they are
\* called with; a callback that calls set puts the forEach of that set on
\* top of the one it is called from
Observable_run(o, ns, frames) ==
  IF frames = <<>> THEN [o |-> o, notes |-> ns]
  ELSE LET f == Head(frames)
       IN IF f.cbs = <<>> THEN Observable_run(o, ns, Tail(frames))
          ELSE LET cb == Head(f.cbs)
                   rest == <<[f EXCEPT !.cbs = Tail(@)]>> \o Tail(frames)
                   ns1 == Append(ns, Called(cb, f.new, f.old))
               IN IF Resets(cb, f.new) /\ ~StrictEq(o.item, Num(0))
                  THEN Observable_run(
                         [o EXCEPT !.item = Num(0)], ns1,
                         <<[cbs |-> o.listeners, new |-> Num(0), old |-> o.item]>>
                           \o rest)
                  ELSE Observable_run(o, ns1, rest)
\* set(newItem): [o, notes], the observable and the calls it made
Observable_set(o, newItem) ==
  IF StrictEq(o.item, newItem) THEN [o |-> o, notes |-> <<>>]
  ELSE Observable_run([o EXCEPT !.item = newItem], <<>>,
                      <<[cbs |-> o.listeners, new |-> newItem, old |-> o.item]>>)
\* onChange(callback)
Observable_onChange(o, callback) ==
  Observable_run([o EXCEPT !.listeners = Append(@, callback)], <<>>,
                 <<[cbs |-> <<callback>>, new |-> o.item, old |-> o.item]>>)

\* An object is the sequence of its own properties in insertion order, the
\* order of Object.keys
ObjKeys == {"a", "b"}
ObjVals == {Undef, Num(1), Num(2)}
Prop(k, v) == [k |-> k, v |-> v]
OwnKeys(object) == {object[i].k : i \in DOMAIN object}
\* object[key]: undefined when the object has no such property
ValueAt(object, key) ==
  IF key \in OwnKeys(object)
  THEN (CHOOSE e \in {object[i] : i \in DOMAIN object} : e.k = key).v
  ELSE Undef
\* object[key] = value
Assign(object, key, value) ==
  IF key \in OwnKeys(object)
  THEN [i \in DOMAIN object |->
          IF object[i].k = key THEN Prop(key, value) ELSE object[i]]
  ELSE Append(object, Prop(key, value))
RECURSIVE Spread(_, _)
\* { ...a, ...b }
Spread(a, b) ==
  IF b = <<>> THEN a
  ELSE Spread(Assign(a, Head(b).k, Head(b).v), Tail(b))
\* an object as an argument of a callback
ObjVal(object) == [t |-> "object", props |-> object]

\* ObservableObject(object): the closure over object, listeners, subscribers
ObservableObject(object) ==
  [object |-> object, listeners |-> <<>>,
   subscribers |-> [k \in ObjKeys |-> <<>>]]
ObservableObject_get(oo) == oo.object

RECURSIVE NotifyKeys(_, _, _)
\* Object.keys(newObject).forEach(key => ...): the calls of the subscribers
\* of the keys from the i-th on whose value is not === the old one
NotifyKeys(oo, newObject, i) ==
  IF i > Len(newObject) THEN <<>>
  ELSE LET key == newObject[i].k
           newValue == newObject[i].v
           oldValue == ValueAt(oo.object, key)
           \* subscribers[key] || []
           subs == IF key \in DOMAIN oo.subscribers THEN oo.subscribers[key]
                   ELSE <<>>
       IN (IF StrictEq(oldValue, newValue) THEN <<>>
           ELSE [j \in 1 .. Len(subs) |->
                   [cb |-> subs[j], key |-> key,
                    new |-> newValue, old |-> oldValue]])
            \o NotifyKeys(oo, newObject, i + 1)
\* notify that calls every subscriber of a key of the new object
notifyEveryKey(oo, newObject) ==
  [o |-> [oo EXCEPT !.object = newObject],
   notes |-> NotifyKeys([oo EXCEPT !.object = <<>>], newObject, 1)
               \o forEach(oo.listeners, ObjVal(newObject), ObjVal(oo.object))]
\* notify(newObject): newObject is always a new object, never == object
notify(oo, newObject) ==
  [o |-> [oo EXCEPT !.object = newObject],
   notes |-> NotifyKeys(oo, newObject, 1)
               \o forEach(oo.listeners, ObjVal(newObject), ObjVal(oo.object))]
ObservableObject_set(oo, newObject) == notify(oo, Spread(oo.object, newObject))
ObservableObject_push(oo, key, value) ==
  notify(oo, Spread(oo.object, <<Prop(key, value)>>))
ObservableObject_remove(oo, key) ==
  notify(oo, Spread(oo.object, <<Prop(key, Undef)>>))
\* replace(newObject): every property of object set to undefined first
ObservableObject_replace(oo, newObject) ==
  notify(oo, Spread([i \in DOMAIN oo.object |-> Prop(oo.object[i].k, Undef)],
                    newObject))
ObservableObject_onChange(oo, callback) ==
  [o |-> [oo EXCEPT !.listeners = Append(@, callback)],
   notes |-> <<Called(callback, ObjVal(oo.object), ObjVal(oo.object))>>]
ObservableObject_subscribe(oo, key, callback) ==
  [o |-> [oo EXCEPT !.subscribers[key] = Append(@, callback)],
   notes |-> <<[cb |-> callback, key |-> key, new |-> ValueAt(oo.object, key),
                old |-> ValueAt(oo.object, key)]>>]

\* ObservableList(list): the closure over the list and the three listener
\* arrays
ObservableList(list) ==
  [list |-> list, addListeners |-> <<>>, removeListeners |-> <<>>,
   replaceListeners |-> <<>>]
\* list.indexOf(item), -1 when there is none
indexOf(list, item) ==
  IF \E i \in DOMAIN list : StrictEq(list[i], item)
  THEN (CHOOSE i \in DOMAIN list :
          StrictEq(list[i], item) /\ \A j \in 1 .. (i - 1) : ~StrictEq(list[j], item)) - 1
  ELSE -1
\* list.splice(i, 1)
splice(list, i) == SubSeq(list, 1, i) \o SubSeq(list, i + 2, Len(list))
ObservableList_onAdd(ol, listener) ==
  [o |-> [ol EXCEPT !.addListeners = Append(@, listener)], notes |-> <<>>]
ObservableList_onRemove(ol, listener) ==
  [o |-> [ol EXCEPT !.removeListeners = Append(@, listener)], notes |-> <<>>]
ObservableList_onReplace(ol, listener) ==
  [o |-> [ol EXCEPT !.replaceListeners = Append(@, listener)], notes |-> <<>>]
ObservableList_add(ol, item) ==
  [o |-> [ol EXCEPT !.list = Append(@, item)],
   notes |-> forEach(ol.addListeners, item, Absent)]
\* remove that removes every occurrence
ObservableList_removeAll(ol, item) ==
  [o |-> [ol EXCEPT !.list = SelectSeq(@, LAMBDA x : ~StrictEq(x, item))],
   notes |-> forEach(ol.removeListeners, item, Absent)]
ObservableList_remove(ol, item) ==
  [o |-> IF indexOf(ol.list, item) >= 0
         THEN [ol EXCEPT !.list = splice(@, indexOf(ol.list, item))]
         ELSE ol,
   notes |-> forEach(ol.removeListeners, item, Absent)]
ObservableList_replace(ol, item, newItem) ==
  [o |-> IF indexOf(ol.list, item) >= 0
         THEN [ol EXCEPT !.list[indexOf(ol.list, item) + 1] = newItem]
         ELSE ol,
   notes |-> forEach(ol.replaceListeners, newItem, item)]
ObservableList_count(ol) == Len(ol.list)
ObservableList_indexOf(ol, item) == indexOf(ol.list, item)
\* list[index]: undefined outside the list
ObservableList_get(ol, index) ==
  IF index + 1 \in DOMAIN ol.list THEN ol.list[index + 1] ELSE Undef

-----------------------------------------------------------------------------
(* Controller and PreactController *)

\* parent.prepend(child)
prepend(w, parent, child) == insertBefore(w, parent, child, firstChild(w, parent))

\* get model(): { ...store.get(), ...this.state.get() }; the controller
\* reads the object of the module's store where it keeps store
model(controller) ==
  Spread(controller.store, <<Prop("counter", controller.state.counter)>>)

\* the views of the scenarios:
\*   controller => h('p', {}, controller.model.counter)
\*   controller => h('p', {}, controller.model.counter, controller.model.note)
view(controller) ==
  IF controller.view = "note"
  THEN vNode("p", EmptyObj, <<ValueAt(model(controller), "counter"),
                              ValueAt(model(controller), "note")>>)
  ELSE vNode("p", EmptyObj, <<ValueAt(model(controller), "counter")>>)

\* repaint that replaces the tree whatever the diffing flag says
repaintNoDiffing(controller, new) ==
  IF controller.class = "PreactController"
  THEN render_1(controller.doc, new, Root, firstChild(controller.doc, Root))
  ELSE LET r == render(controller.doc, new)
       IN replaceChild(r.w, Root, r.id, firstChild(r.w, Root))
\* repaint(newVDom) of Controller, overridden by PreactController; the
\* document after it
repaint(controller, new) ==
  IF controller.class = "PreactController"
  THEN render_1(controller.doc, new, Root, firstChild(controller.doc, Root))
  ELSE IF controller.diffing
  THEN diff(controller.doc, Root, new, controller.vDom, 0)
  ELSE LET r == render(controller.doc, new)
       IN replaceChild(r.w, Root, r.id, firstChild(r.w, Root))

\* refresh(): an exception of repaint leaves before vDom = newVDom
refresh(controller) ==
  LET new == view(controller)
      doc == repaint(controller, new)
  IN [controller EXCEPT !.doc = doc, !.vDom = IF doc.err THEN @ ELSE new]

RECURSIVE onChanges(_, _)
\* store.onChange(s => this.refresh()) and state.onChange(s => this.refresh()):
\* each of the n calls of onChange calls its listener at once, and an
\* exception of refresh leaves the constructor
onChanges(controller, n) ==
  IF n = 0 \/ controller.doc.err THEN controller
  ELSE onChanges(refresh(controller), n - 1)

\* new Controller($root, state, view, diffing): init renders the view into
\* $root; store.onChange and state.onChange each call refresh at once
ControllerOn(store, state, viewName, diffing) ==
  LET c0 == [class |-> "Controller", state |-> state, diffing |-> diffing,
             vDom |-> Null, doc |-> RootDoc, store |-> store, view |-> viewName]
      r == render(c0.doc, view(c0))
      c1 == [c0 EXCEPT !.vDom = view(c0), !.doc = prepend(r.w, Root, r.id)]
  IN onChanges(c1, 2)
\* the controller of the counter scenario; nothing is put in the store
Controller(state, diffing) == ControllerOn(<<>>, state, "counter", diffing)

\* new PreactController($root, state, view): init only registers the two
\* listeners, each calling refresh at once
PreactControllerOn(store, state, viewName) ==
  onChanges([class |-> "PreactController", state |-> state,
             diffing |-> TRUE, vDom |-> Null,
             doc |-> createElement(PreactDoc, "div"),
             store |-> store, view |-> viewName], 2)
PreactController(state) == PreactControllerOn(<<>>, state, "counter")

\* state.push('counter', value) and state.set({counter: value}): notify
\* stores the new object and calls the listener, which is refresh
push(controller, value) ==
  refresh([controller EXCEPT !.state = [counter |-> value],
                             !.doc = [@ EXCEPT !.err = FALSE]])

RECURSIVE RefreshAll(_, _)
\* listeners.forEach(listener => listener(newObject, oldObject)) on the
\* store, whose listeners are the refresh of each controller, by name; an
\* exception of one ends the forEach (no controller of cs holds an
\* exception when the forEach begins)
RefreshAll(cs, listeners) ==
  IF listeners = <<>> \/ (\E k \in DOMAIN cs : cs[k].doc.err) THEN cs
  ELSE RefreshAll([cs EXCEPT ![Head(listeners)] = refresh(@)], Tail(listeners))

\* increment() and decrement() of the counter controllers
increment(controller) == push(controller, Num(controller.state.counter.n + 1))
decrement(controller) == push(controller, Num(controller.state.counter.n - 1))

-----------------------------------------------------------------------------
(* mount: the state that a mounted view keeps *)

\* the view of the mounted component: the properties a and b of the state
\* as the children of a paragraph
stateView(state) ==
  vNode("p", Null, <<ValueAt(state, "a"), ValueAt(state, "b")>>)

\* the own enumerable properties that { ...newState } copies: a function,
\* null and undefined have none
OwnProps(newState) == IF newState.t = "object" THEN newState.props ELSE <<>>

\* the functions given to setState and to act:
\*   inc      state => ({ ...state, a: (state.a || 0) + 1 })
\*   clear    () => ({})
\*   nothing  () => {}, which returns undefined
Updaters == {"inc", "clear", "nothing"}
Updater(f, state) ==
  CASE f = "inc" ->
         LET a == ValueAt(state, "a")
         IN ObjVal(Assign(state, "a", Num((IF a.t = "num" THEN a.n ELSE 0) + 1)))
    [] f = "clear" -> ObjVal(<<>>)
    [] f = "nothing" -> Undef

\* action(state) || state: an object is truthy, undefined is not
OrState(returned, state) == IF returned.t = "object" THEN returned.props ELSE state

NoMount ==
  [variant |-> "none", diffing |-> FALSE, state |-> <<>>, vDom |-> Null,
   doc |-> EmptyDoc, calls |-> 0,
   op |-> [name |-> "none", arg |-> Null, before |-> <<>>]]

\* mount($root, view, initialState, useDiffing), mountWithActions and the
\* mount of the diffing research: the first rendering goes under $root
mount(variant, diffing, initialState) ==
  LET tree == stateView(initialState)
      r == render(RootDoc, tree)
      first == firstChild(r.w, Root)
  IN [NoMount EXCEPT
        !.variant = variant, !.diffing = diffing, !.state = initialState,
        !.vDom = tree,
        !.doc = IF variant = "huerto" THEN prepend(r.w, Root, r.id)
                ELSE IF first # 0 THEN replaceChild(r.w, Root, r.id, first)
                ELSE appendChild(r.w, Root, r.id)]

\* the rest of setState, and refresh: the view is invoked with the state,
\* the result is diffed against vDom or replaces the first child of $root,
\* then vDom = newVDom; an exception leaves the call before that
mount_refresh(m) ==
  LET tree == stateView(m.state)
      w == [m.doc EXCEPT !.err = FALSE, !.muts = 0]
      d == IF m.diffing THEN diff(w, Root, tree, m.vDom, 0)
           ELSE LET r == render(w, tree)
                IN replaceChild(r.w, Root, r.id, firstChild(r.w, Root))
  IN [m EXCEPT !.doc = d, !.vDom = IF d.err THEN @ ELSE tree]

\* setState of mount in dom.js: state = { ...state, ...newState }
mount_setState(m, newState) ==
  mount_refresh([m EXCEPT !.state = Spread(@, OwnProps(newState))])

\* setState of the mount of the diffing research: a function is applied to
\* the state, anything else is spread over it
huerto_setState(m, newState) ==
  mount_refresh(
    [m EXCEPT !.state =
       IF TypeOf(newState) = "function"
       THEN OrState(Updater(newState.id, @), @)
       ELSE Spread(@, OwnProps(newState))])

\* act of mountWithActions: state = action(state, event) || state; refresh()
mountWithActions_act(m, action) ==
  mount_refresh([m EXCEPT !.state = OrState(Updater(action.id, @), @)])

-----------------------------------------------------------------------------
(* Structural descriptions of live trees and of Node Models *)

RECURSIVE Describe(_, _)
\* the live subtree at id serialized: kind, tag, text, attributes, children
Describe(w, id) ==
  LET n == w.nodes[id]
  IN [kind |-> n.kind,
      tag |-> IF n.kind = "elem" THEN ToLower(n.name) ELSE "",
      text |-> n.value,
      attrs |-> n.attrs,
      kids |-> [i \in 1 .. Len(n.kids) |-> Describe(w, n.kids[i])]]

DescribeKids(w, id) ==
  [i \in 1 .. Len(w.nodes[id].kids) |-> Describe(w, w.nodes[id].kids[i])]

RECURSIVE Expected(_)
\* the description of the live tree that reflects the Node Model n: an empty
\* text node for null, a text node for a string or number, an element with
\* its non-null, non-function attributes and its children in order
Expected(n) ==
  IF IsNullish(n) THEN
    [kind |-> "text", tag |-> "", text |-> "", attrs |-> EmptyObj, kids |-> <<>>]
  ELSE IF IsPrim(n) THEN
    [kind |-> "text", tag |-> "",
     text |-> IF n.t = "num" THEN NumToString(n.n) ELSE n.s,
     attrs |-> EmptyObj, kids |-> <<>>]
  ELSE
    [kind |-> "elem", tag |-> ToLower(n.tagName), text |-> "",
     attrs |-> [k \in AttrKeys |->
                  LET v == n.attributes[k]
                  IN IF v = Absent \/ IsNullish(v) \/ v.t = "fn" THEN Absent
                     ELSE Str(JsToString(v))],
     kids |-> [i \in 1 .. Len(n.children) |-> Expected(n.children[i])]]

\* the keys of n's attributes without the function-valued ones
NonFunctionKeys(n) == {k \in Keys(n.attributes) : n.attributes[k].t # "fn"}

\* ... and without those whose value is null or undefined
RenderedKeys(n) == {k \in NonFunctionKeys(n) : ~IsNullish(n.attributes[k])}

RECURSIVE Isomorphic(_, _, _, _)
\* the live subtree at id has the shape of the Node Model n: same tag, the
\* attribute keys of n (all non-function keys, or only the rendered ones),
\* same child count and order, text nodes for null and primitive children
Isomorphic(w, id, n, renderedOnly) ==
  LET live == w.nodes[id]
  IN IF IsNullish(n) THEN live.kind = "text" /\ live.value = ""
     ELSE IF IsPrim(n) THEN
       /\ live.kind = "text"
       /\ live.value = (IF n.t = "num" THEN NumToString(n.n) ELSE n.s)
     ELSE
       /\ live.kind = "elem"
       /\ ToLower(live.name) = ToLower(n.tagName)
       /\ Keys(live.attrs) = (IF renderedOnly THEN RenderedKeys(n) ELSE NonFunctionKeys(n))
       /\ Len(live.kids) = Len(n.children)
       /\ \A i \in 1 .. Len(n.children) :
            Isomorphic(w, live.kids[i], n.children[i], renderedOnly)

-----------------------------------------------------------------------------
(* Specifications.  Each one runs one part of the program and leaves the   *)
(* variables of the other parts idle.                                      *)

NoArgs == [tagName |-> "", attributes |-> Undef, nodes |-> <<>>]
IdleChanged ==
  /\ node1 = Null /\ node2 = Null /\ result = FALSE /\ cpc = "idle"
  /\ hArgs = NoArgs /\ hNode = Null
IdleRender == rNode = Null /\ rDom = EmptyDoc /\ rOut = 0 /\ rpc = "idle"
IdleMount ==
  /\ vDom = Null /\ dom = EmptyDoc /\ domPlain = EmptyDoc
  /\ oldVDom = Null /\ newVDom = Null /\ threw = FALSE /\ calls = 0
  /\ mounted = NoMount
\* the last operation on the Preact document: its name, the instance it
\* is called on, the update and the callback it is given
NoOp == [name |-> "none", c |-> 0, update |-> Null, callback |-> 0]
IdlePreact ==
  /\ pDoc = PreactDoc /\ pOld = PreactDoc
  /\ pVnode = Null /\ pOldVnode = Null /\ renders = 0 /\ pOp = NoOp
IdleController ==
  /\ controllers = [k \in {} |-> Null]
  /\ para = [k \in {} |-> 0] /\ net = [k \in {} |-> 0] /\ steps = 0
\* no operation on an observable yet
NoCall == [name |-> "none", o |-> 0, key |-> "", cb |-> 0, arg |-> Null, arg2 |-> Null]
IdleObservable ==
  /\ obsv = <<>> /\ obsObject = Null /\ obsList = Null
  /\ notes = <<>> /\ oOp = NoCall

InitChanged ==
  /\ node1 \in ChangedInputs
  /\ node2 \in ChangedInputs
  /\ result = FALSE
  /\ cpc = "call"
  /\ hArgs = NoArgs /\ hNode = Null
  /\ IdleRender /\ IdleMount /\ IdlePreact /\ IdleController /\ IdleObservable

CallChanged ==
  /\ cpc = "call"
  /\ result' = changed(node1, node2)
  /\ cpc' = "done"
  /\ UNCHANGED <<node1, node2, hArgs, hNode, varsRender, varsMount, varsPreact,
                 varsController, varsObservable>>

NextChanged == CallChanged

SpecChanged == InitChanged /\ [][NextChanged]_vars

\* the arguments of h: nodes of every kind, and arrays of them
HNodes ==
  {Null, Undef, Num(0), Str("a"), vNode("p", Null, <<>>),
   Arr(<<>>), Arr(<<Num(1)>>), Arr(<<Num(1), Str("a")>>), Arr(<<Null, Num(1)>>),
   Arr(<<Arr(<<Num(1)>>)>>)}
HAttributes == {Undef, Null, EmptyObj, [EmptyObj EXCEPT !["a"] = Str("0")]}
InitH ==
  /\ hArgs \in [tagName : Tags, attributes : HAttributes,
                nodes : UNION {[1 .. n -> HNodes] : n \in 0 .. MaxKids}]
  /\ hNode = Null
  /\ node1 = Null /\ node2 = Null /\ result = FALSE /\ cpc = "idle"
  /\ IdleRender /\ IdleMount /\ IdlePreact /\ IdleController /\ IdleObservable

CallH ==
  /\ hNode = Null
  /\ hNode' = h(hArgs.tagName, hArgs.attributes, hArgs.nodes)
  /\ UNCHANGED <<node1, node2, result, cpc, hArgs, varsRender, varsMount, varsPreact,
                 varsController, varsObservable>>

NextH == CallH
SpecH == InitH /\ [][NextH]_vars

InitRender ==
  /\ rNode \in RenderInputs
  /\ rDom = EmptyDoc
  /\ rOut = 0
  /\ rpc = "call"
  /\ IdleChanged /\ IdleMount /\ IdlePreact /\ IdleController /\ IdleObservable

CallRender ==
  /\ rpc = "call"
  /\ LET r == render(rDom, rNode)
     IN rDom' = r.w /\ rOut' = r.id
  /\ rpc' = "done"
  /\ UNCHANGED <<rNode, varsChanged, varsMount, varsPreact, varsController, varsObservable>>

NextRender == CallRender

SpecRender == InitRender /\ [][NextRender]_vars

\* mount($root, view, initialState) twice, with and without diffing
InitMount ==
  /\ vDom \in Trees
  /\ dom = mountInitial(vDom)
  /\ domPlain = mountInitial(vDom)
  /\ oldVDom = Null /\ newVDom = Null
  /\ threw = FALSE
  /\ calls = 0
  /\ mounted = NoMount
  /\ IdleChanged /\ IdleRender /\ IdlePreact /\ IdleController /\ IdleObservable

\* setState(newState) on both mounts; view gives the tree new
SetState(new) ==
  /\ calls < MaxCalls
  /\ calls' = calls + 1
  /\ LET d == setStateDiffing(dom, new, vDom)
     IN /\ dom' = d
        /\ threw' = d.err
        /\ vDom' = IF d.err THEN vDom ELSE new
  /\ domPlain' = setStatePlain(domPlain, new)
  /\ oldVDom' = vDom
  /\ newVDom' = new
  /\ UNCHANGED <<mounted, varsChanged, varsRender, varsPreact, varsController, varsObservable>>

NextMount == \E new \in Trees : SetState(new)

SpecMount == InitMount /\ [][NextMount]_vars

\* a keyed list: h('ul', null, h('li', {key: k}, String(k)), ...)
li(k) == pNode(Str("li"), [NoProps EXCEPT !["key"] = Num(k)], <<Str(NumToString(k))>>)
ul(keys) == pNode(Str("ul"), Undef, [i \in 1 .. Len(keys) |-> li(keys[i])])

\* the sequences of distinct keys out of 1 .. MaxKeys
KeySeqs ==
  {s \in UNION {[1 .. n -> 1 .. MaxKeys] : n \in 0 .. MaxKeys} :
     \A i, j \in 1 .. Len(s) : i # j => s[i] # s[j]}
KeyedLists == {ul(keys) : keys \in KeySeqs}

\* the component X with a key in the three places: the root given to
\* render, the child of an element, the output of the component W
AtRoot(k) == pNode(Ctor("X"), [NoProps EXCEPT !["key"] = k], <<>>)
AsChild(k) == pNode(Str("div"), Undef, <<AtRoot(k)>>)
AsOutput(k) == pNode(Ctor("W"), [NoProps EXCEPT !["a"] = k], <<>>)
ComponentKeys == {Num(1), Num(2)}
ComponentTrees ==
  {AtRoot(k) : k \in ComponentKeys} \cup {AsChild(k) : k \in ComponentKeys}
    \cup {AsOutput(k) : k \in ComponentKeys}

InitPreact ==
  /\ pDoc = createElement(PreactDoc, "div")
  /\ pOld = PreactDoc
  /\ pVnode = Null /\ pOldVnode = Null
  /\ renders = 0
  /\ pOp = NoOp
  /\ IdleChanged /\ IdleRender /\ IdleMount /\ IdleController /\ IdleObservable

\* render(vnode, $root, $root.firstChild); the log holds the hooks of the
\* last call
Render(vnode) ==
  /\ pDoc' = render_1([pDoc EXCEPT !.log = <<>>, !.err = FALSE, !.muts = 0,
                                   !.thrown = NoThrow],
                      vnode, Root, firstChild(pDoc, Root))
  /\ pOld' = pDoc
  /\ pVnode' = vnode
  /\ pOldVnode' = pVnode
  /\ renders' = renders + 1
  /\ pOp' = [NoOp EXCEPT !.name = "render"]
  /\ UNCHANGED <<varsChanged, varsRender, varsMount, varsController, varsObservable>>

RenderList == \E vnode \in KeyedLists : renders < MaxListRenders /\ Render(vnode)
NextKeyed == RenderList
SpecKeyed == InitPreact /\ [][NextKeyed]_vars

RenderTree == \E vnode \in ComponentTrees : renders < MaxRenders /\ Render(vnode)
NextComponent == RenderTree
SpecComponent == InitPreact /\ [][NextComponent]_vars

\* the children of a list: keyed elements, an unkeyed element, a text, the
\* component X with a key and without one
ListChildren ==
  {li(1), li(2), pNode(Str("span"), Undef, <<>>), Str("t"),
   AtRoot(Num(3)), pNode(Ctor("X"), Undef, <<>>)}
\* vnode.key of a child; a text has none
ChildKey(vchild) == IF vchild.t = "el" THEN vchild.key ELSE Undef
\* the lists of up to MaxKids children whose keys differ
MixedLists ==
  {pNode(Str("ul"), Undef, kids) :
     kids \in {s \in UNION {[1 .. n -> ListChildren] : n \in 0 .. MaxKids} :
                 \A i, j \in 1 .. Len(s) :
                   (i # j /\ ChildKey(s[i]) # Undef) => ChildKey(s[i]) # ChildKey(s[j])}}
\* a list is rendered, and rendered once again
RenderMixed == \E vnode \in MixedLists : pOldVnode = Null /\ Render(vnode)
NextReconcile == RenderMixed
SpecReconcile == InitPreact /\ [][NextReconcile]_vars

\* the lists of up to MaxKeys children whose keys may be the same
CollidingLists ==
  {ul(keys) : keys \in UNION {[1 .. n -> 1 .. MaxKeys] : n \in 0 .. MaxKeys}}
\* a list is rendered, and another one after it
RenderColliding == \E vnode \in CollidingLists : pOldVnode = Null /\ Render(vnode)
NextCollision == RenderColliding
SpecCollision == InitPreact /\ [][NextCollision]_vars

\* a paragraph with the attribute a and the handler onclick, each left
\* out, null or given, and a paragraph without attributes
AttributeSets ==
  {[NoProps EXCEPT !["a"] = va, !["onclick"] = vo] :
     va \in {Absent, Undef, Null, Str("x"), Str("y"), Bool(FALSE)},
     vo \in {Absent, Null, Fn(1, "f"), Fn(2, "f")}}
AttributeNodes ==
  {pNode(Str("p"), at, <<>>) : at \in AttributeSets \cup {Undef}}
RenderAttributes ==
  \E vnode \in AttributeNodes : renders < MaxListRenders /\ Render(vnode)
NextAttributes == RenderAttributes
SpecAttributes == InitPreact /\ [][NextAttributes]_vars

\* X whose componentDidMount renders the empty div again, beside X and W
RemountChildren ==
  {pNode(Ctor("X"), [NoProps EXCEPT !["a"] = Again], <<>>),
   AtRoot(Num(1)), AsOutput(Num(2)), AsOutput(Again)}
RemountTrees ==
  {pNode(Str("div"), Undef, kids) :
     kids \in UNION {[1 .. n -> RemountChildren] : n \in 0 .. MaxKids}}
\* a tree is rendered, and another one after it
RenderRemount == \E vnode \in RemountTrees : pOldVnode = Null /\ Render(vnode)
NextRemount == RenderRemount
SpecRemount == InitPreact /\ [][NextRemount]_vars

\* W as the child of an element, and the same tree as the output of V
UnderDiv(k) == pNode(Str("div"), Undef, <<AsOutput(k)>>)
Nested(k) == pNode(Ctor("V"), [NoProps EXCEPT !["a"] = k], <<>>)
LifecycleTrees ==
  ComponentTrees \cup {UnderDiv(k) : k \in ComponentKeys}
    \cup {Nested(k) : k \in ComponentKeys}
RenderLife == \E vnode \in LifecycleTrees : renders < MaxRenders /\ Render(vnode)
NextLifecycle == RenderLife
SpecLifecycle == InitPreact /\ [][NextLifecycle]_vars

\* two X side by side, the first with a ref; W over X, with a ref; nothing
Siblings ==
  pNode(Str("div"), Undef,
        <<pNode(Ctor("X"), [NoProps EXCEPT !["key"] = Num(1), !["ref"] = Ref("r")], <<>>),
          pNode(Ctor("X"), [NoProps EXCEPT !["key"] = Num(2)], <<>>)>>)
Chain == pNode(Ctor("W"), [NoProps EXCEPT !["a"] = Num(1), !["ref"] = Ref("r")], <<>>)
Nothing == pNode(Str("div"), Undef, <<>>)
SchedulerTrees == {Siblings, Chain, Nothing}

\* the updates given to setState and the callbacks given with them
Updates ==
  {Inc,
   Obj([NoState EXCEPT !["x"] = Num(2)]),
   Obj([NoState EXCEPT !["scu"] = Bool(FALSE)]),
   Obj([NoState EXCEPT !["scu"] = Num(0)]),
   Obj([NoState EXCEPT !["ping"] = Num(MaxPing)]),
   Obj([NoState EXCEPT !["force"] = Bool(TRUE)])}
Callbacks == {0, 1}
\* the setState calls of the scenarios: every update without a callback,
\* and two of them with one
SetStateCalls ==
  {[update |-> u, callback |-> 0] : u \in Updates}
    \cup {[update |-> Inc, callback |-> 1],
          [update |-> Obj([NoState EXCEPT !["scu"] = Bool(FALSE)]), callback |-> 1]}

\* the scheduler scenarios start once render(vnode, $root) has mounted a tree
InitScheduler ==
  /\ \E vnode \in {Siblings, Chain} :
       /\ pDoc = render_1(createElement(PreactDoc, "div"), vnode, Root, 0)
       /\ pVnode = vnode
  /\ pOld = PreactDoc
  /\ pOldVnode = Null
  /\ renders = 0
  /\ pOp = NoOp
  /\ IdleChanged /\ IdleRender /\ IdleMount /\ IdleController /\ IdleObservable

\* the operation starts with an empty log
Fresh == [pDoc EXCEPT !.log = <<>>, !.err = FALSE, !.muts = 0, !.thrown = NoThrow]

Stepped(op) ==
  /\ pOld' = pDoc
  /\ renders' = renders + 1
  /\ pOp' = op
  /\ UNCHANGED <<pVnode, pOldVnode, varsChanged, varsRender, varsMount, varsController, varsObservable>>

\* c.setState(update, callback) on a mounted instance
CallSetState(c, update, callback) ==
  /\ pDoc.comps[c].base # 0
  /\ pDoc' = setState(Fresh, c, update, callback)
  /\ Stepped([name |-> "setState", c |-> c, update |-> update, callback |-> callback])

\* c.forceUpdate(callback)
CallForceUpdate(c, callback) ==
  /\ pDoc.comps[c].base # 0
  /\ pDoc' = forceUpdate(Fresh, c, callback)
  /\ Stepped([NoOp EXCEPT !.name = "forceUpdate", !.c = c, !.callback = callback])

\* one of the rerender calls handed to defer runs
Flush ==
  /\ pDoc.timers > 0
  /\ pDoc' = rerender([Fresh EXCEPT !.timers = @ - 1])
  /\ Stepped([NoOp EXCEPT !.name = "rerender"])

NextScheduler ==
  \/ \E c \in 1 .. Len(pDoc.comps), call \in SetStateCalls :
       renders < MaxOps /\ CallSetState(c, call.update, call.callback)
  \/ \E c \in 1 .. Len(pDoc.comps), cb \in Callbacks :
       renders < MaxOps /\ CallForceUpdate(c, cb)
  \/ renders < MaxOps /\ Flush
  \/ \E vnode \in SchedulerTrees : renders < MaxOps /\ Render(vnode)
SpecScheduler == InitScheduler /\ [][NextScheduler]_vars

\* the scheduler with hooks that throw: setState({boom: 1}) makes the next
\* componentWillUpdate of the instance throw, setState({boom: 2}) its next
\* componentDidUpdate
ThrowingUpdates ==
  {Inc,
   Obj([NoState EXCEPT !["boom"] = Num(1)]),
   Obj([NoState EXCEPT !["boom"] = Num(2)])}
NextThrowing ==
  \/ \E c \in 1 .. Len(pDoc.comps), update \in ThrowingUpdates :
       renders < MaxOps /\ CallSetState(c, update, 0)
  \/ \E c \in 1 .. Len(pDoc.comps), cb \in Callbacks :
       renders < MaxOps /\ CallForceUpdate(c, cb)
  \/ renders < MaxOps /\ Flush
  \/ \E vnode \in {Siblings, Chain} : renders < MaxOps /\ Render(vnode)
SpecThrowing == InitScheduler /\ [][NextThrowing]_vars

\* the scheduler under the assumption that a rerender handed to defer
\* runs in the end: the calls of the scenario are bounded, the deferred
\* rerender is not, and it is weakly fair (the microtask queue, or the
\* timer, runs every callback it is given). Deferred tells the steps of
\* Drain by what they record: no other action of NextDeferred records a
\* rerender, and it is enabled exactly when Drain is
Drain ==
  /\ pDoc.timers > 0
  /\ pDoc' = rerender([Fresh EXCEPT !.timers = @ - 1])
  /\ pOld' = pDoc
  /\ pOp' = [NoOp EXCEPT !.name = "rerender"]
  /\ UNCHANGED <<pVnode, pOldVnode, renders, varsChanged, varsRender, varsMount,
                 varsController, varsObservable>>
NextDeferred ==
  \/ \E c \in 1 .. Len(pDoc.comps), call \in SetStateCalls :
       renders < MaxLiveOps /\ CallSetState(c, call.update, call.callback)
  \/ \E c \in 1 .. Len(pDoc.comps), cb \in Callbacks :
       renders < MaxLiveOps /\ CallForceUpdate(c, cb)
  \/ \E vnode \in SchedulerTrees : renders < MaxLiveOps /\ Render(vnode)
  \/ Drain
Deferred ==
  /\ pDoc.timers > 0
  /\ pOld' = pDoc
  /\ pOp' = [NoOp EXCEPT !.name = "rerender"]
SpecDeferred == InitScheduler /\ [][NextDeferred]_vars /\ WF_<<pOld, pOp>>(Deferred)

\* two Observables, each with the callbacks of the scenarios as listeners
InitObservable ==
  /\ obsv \in [1 .. 2 -> {Observable(item) : item \in ItemVals}]
  /\ obsObject = Null /\ obsList = Null
  /\ notes = <<>> /\ oOp = NoCall
  /\ IdleChanged /\ IdleRender /\ IdleMount /\ IdlePreact /\ IdleController

\* obsv[k].set(newItem)
ObsSet(k, newItem) ==
  /\ obsv' = [obsv EXCEPT ![k] = Observable_set(obsv[k], newItem).o]
  /\ notes' = Observable_set(obsv[k], newItem).notes
  /\ oOp' = [NoCall EXCEPT !.name = "set", !.o = k, !.arg = newItem]
  /\ UNCHANGED <<obsObject, obsList, varsChanged, varsRender, varsMount,
                 varsPreact, varsController>>

\* obsv[k].onChange(callback)
ObsOnChange(k, callback) ==
  /\ Len(obsv[k].listeners) < MaxListeners
  /\ obsv' = [obsv EXCEPT ![k] = Observable_onChange(obsv[k], callback).o]
  /\ notes' = Observable_onChange(obsv[k], callback).notes
  /\ oOp' = [NoCall EXCEPT !.name = "onChange", !.o = k, !.cb = callback]
  /\ UNCHANGED <<obsObject, obsList, varsChanged, varsRender, varsMount,
                 varsPreact, varsController>>

NextObservable ==
  \/ \E k \in 1 .. 2, newItem \in ItemVals : ObsSet(k, newItem)
  \/ \E k \in 1 .. 2, callback \in ListenerIds : ObsOnChange(k, callback)
SpecObservable == InitObservable /\ [][NextObservable]_vars

\* the Observables with the callback that sets among their listeners
NextReentrant ==
  \/ \E k \in 1 .. 2, newItem \in ItemVals : ObsSet(k, newItem)
  \/ \E k \in 1 .. 2, callback \in ListenerIds \cup {Resetting} :
       ObsOnChange(k, callback)
SpecReentrant == InitObservable /\ [][NextReentrant]_vars

\* the objects the scenarios give to set and replace
Objects ==
  {<<>>, <<Prop("a", Num(1))>>, <<Prop("a", Num(2))>>, <<Prop("a", Undef)>>,
   <<Prop("b", Num(1))>>, <<Prop("b", Num(2)), Prop("a", Num(1))>>}

\* ObservableObject({}) and ObservableObject({a: 1})
InitObservableObject ==
  /\ obsObject \in {ObservableObject(<<>>), ObservableObject(<<Prop("a", Num(1))>>)}
  /\ obsv = <<>> /\ obsList = Null
  /\ notes = <<>> /\ oOp = NoCall
  /\ IdleChanged /\ IdleRender /\ IdleMount /\ IdlePreact /\ IdleController

\* the calls of the methods of the ObservableObject; the n-th callback
\* registered in an array is the callback n
OoSet(newObject) ==
  /\ obsObject' = ObservableObject_set(obsObject, newObject).o
  /\ notes' = ObservableObject_set(obsObject, newObject).notes
  /\ oOp' = [NoCall EXCEPT !.name = "set", !.arg = ObjVal(newObject)]
  /\ UNCHANGED <<obsv, obsList, varsChanged, varsRender, varsMount,
                 varsPreact, varsController>>

OoPush(key, value) ==
  /\ obsObject' = ObservableObject_push(obsObject, key, value).o
  /\ notes' = ObservableObject_push(obsObject, key, value).notes
  /\ oOp' = [NoCall EXCEPT !.name = "push", !.key = key, !.arg = value]
  /\ UNCHANGED <<obsv, obsList, varsChanged, varsRender, varsMount,
                 varsPreact, varsController>>

OoRemove(key) ==
  /\ obsObject' = ObservableObject_remove(obsObject, key).o
  /\ notes' = ObservableObject_remove(obsObject, key).notes
  /\ oOp' = [NoCall EXCEPT !.name = "remove", !.key = key]
  /\ UNCHANGED <<obsv, obsList, varsChanged, varsRender, varsMount,
                 varsPreact, varsController>>

OoReplace(newObject) ==
  /\ obsObject' = ObservableObject_replace(obsObject, newObject).o
  /\ notes' = ObservableObject_replace(obsObject, newObject).notes
  /\ oOp' = [NoCall EXCEPT !.name = "replace", !.arg = ObjVal(newObject)]
  /\ UNCHANGED <<obsv, obsList, varsChanged, varsRender, varsMount,
                 varsPreact, varsController>>

OoOnChange(callback) ==
  /\ Len(obsObject.listeners) < MaxListeners
  /\ obsObject' = ObservableObject_onChange(obsObject, callback).o
  /\ notes' = ObservableObject_onChange(obsObject, callback).notes
  /\ oOp' = [NoCall EXCEPT !.name = "onChange", !.cb = callback]
  /\ UNCHANGED <<obsv, obsList, varsChanged, varsRender, varsMount,
                 varsPreact, varsController>>

OoSubscribe(key, callback) ==
  /\ Len(obsObject.subscribers[key]) < MaxListeners
  /\ obsObject' = ObservableObject_subscribe(obsObject, key, callback).o
  /\ notes' = ObservableObject_subscribe(obsObject, key, callback).notes
  /\ oOp' = [NoCall EXCEPT !.name = "subscribe", !.key = key, !.cb = callback]
  /\ UNCHANGED <<obsv, obsList, varsChanged, varsRender, varsMount,
                 varsPreact, varsController>>

NextObservableObject ==
  \/ \E newObject \in Objects : OoSet(newObject)
  \/ \E key \in ObjKeys, value \in ObjVals : OoPush(key, value)
  \/ \E key \in ObjKeys : OoRemove(key)
  \/ \E newObject \in Objects : OoReplace(newObject)
  \/ OoOnChange(Len(obsObject.listeners) + 1)
  \/ \E key \in ObjKeys : OoSubscribe(key, Len(obsObject.subscribers[key]) + 1)
SpecObservableObject == InitObservableObject /\ [][NextObservableObject]_vars

\* the items of the scenarios' lists: 1 and '1' are not ===
ListItems == {Num(1), Str("1")}

\* ObservableList([]) and ObservableList([1])
InitObservableList ==
  /\ obsList \in {ObservableList(<<>>), ObservableList(<<Num(1)>>)}
  /\ obsv = <<>> /\ obsObject = Null
  /\ notes = <<>> /\ oOp = NoCall
  /\ IdleChanged /\ IdleRender /\ IdleMount /\ IdlePreact /\ IdleController

\* the calls of the methods of the ObservableList; the n-th listener
\* registered in an array is the callback n
OlAdd(item) ==
  /\ Len(obsList.list) < MaxItems
  /\ obsList' = ObservableList_add(obsList, item).o
  /\ notes' = ObservableList_add(obsList, item).notes
  /\ oOp' = [NoCall EXCEPT !.name = "add", !.arg = item]
  /\ UNCHANGED <<obsv, obsObject, varsChanged, varsRender, varsMount,
                 varsPreact, varsController>>

OlRemove(item) ==
  /\ obsList' = ObservableList_remove(obsList, item).o
  /\ notes' = ObservableList_remove(obsList, item).notes
  /\ oOp' = [NoCall EXCEPT !.name = "remove", !.arg = item]
  /\ UNCHANGED <<obsv, obsObject, varsChanged, varsRender, varsMount,
                 varsPreact, varsController>>

OlReplace(item, newItem) ==
  /\ obsList' = ObservableList_replace(obsList, item, newItem).o
  /\ notes' = ObservableList_replace(obsList, item, newItem).notes
  /\ oOp' = [NoCall EXCEPT !.name = "replace", !.arg = item, !.arg2 = newItem]
  /\ UNCHANGED <<obsv, obsObject, varsChanged, varsRender, varsMount,
                 varsPreact, varsController>>

OlOnAdd ==
  /\ Len(obsList.addListeners) < MaxListeners
  /\ obsList' = ObservableList_onAdd(obsList, Len(obsList.addListeners) + 1).o
  /\ notes' = ObservableList_onAdd(obsList, Len(obsList.addListeners) + 1).notes
  /\ oOp' = [NoCall EXCEPT !.name = "onAdd"]
  /\ UNCHANGED <<obsv, obsObject, varsChanged, varsRender, varsMount,
                 varsPreact, varsController>>

OlOnRemove ==
  /\ Len(obsList.removeListeners) < MaxListeners
  /\ obsList' = ObservableList_onRemove(obsList, Len(obsList.removeListeners) + 1).o
  /\ notes' = ObservableList_onRemove(obsList, Len(obsList.removeListeners) + 1).notes
  /\ oOp' = [NoCall EXCEPT !.name = "onRemove"]
  /\ UNCHANGED <<obsv, obsObject, varsChanged, varsRender, varsMount,
                 varsPreact, varsController>>

OlOnReplace ==
  /\ Len(obsList.replaceListeners) < MaxListeners
  /\ obsList' = ObservableList_onReplace(obsList, Len(obsList.replaceListeners) + 1).o
  /\ notes' = ObservableList_onReplace(obsList, Len(obsList.replaceListeners) + 1).notes
  /\ oOp' = [NoCall EXCEPT !.name = "onReplace"]
  /\ UNCHANGED <<obsv, obsObject, varsChanged, varsRender, varsMount,
                 varsPreact, varsController>>

NextObservableList ==
  \/ \E item \in ListItems : OlAdd(item)
  \/ \E item \in ListItems : OlRemove(item)
  \/ \E item, newItem \in ListItems : OlReplace(item, newItem)
  \/ OlOnAdd
  \/ OlOnRemove
  \/ OlOnReplace
SpecObservableList == InitObservableList /\ [][NextObservableList]_vars

\* a Controller (with and without diffing) and a PreactController that
\* share the store, constructed in this order with the state {counter: 0}
\* and a view of model.counter and model.note; note is kept in the store,
\* which holds {note: 'n'} as they are constructed
NoteVals == {Undef, Str("n"), Str("m")}
StoreAtFirst == <<Prop("note", Str("n"))>>
InitStore ==
  /\ \E diffing \in BOOLEAN :
       controllers = [k \in {"Controller", "PreactController"} |->
                        IF k = "Controller"
                        THEN ControllerOn(StoreAtFirst, [counter |-> Num(0)], "note", diffing)
                        ELSE PreactControllerOn(StoreAtFirst, [counter |-> Num(0)], "note")]
  /\ obsObject = ObservableObject_onChange(
                   ObservableObject_onChange(ObservableObject(StoreAtFirst), "Controller").o,
                   "PreactController").o
  /\ para = [k \in {"Controller", "PreactController"} |->
               firstChild(controllers[k].doc, Root)]
  /\ net = [k \in {"Controller", "PreactController"} |-> 0]
  /\ steps = 0
  /\ obsv = <<>> /\ obsList = Null /\ notes = <<>> /\ oOp = NoCall
  /\ IdleChanged /\ IdleRender /\ IdleMount /\ IdlePreact

\* this.state.push('counter', this.model.counter + 1) in the controller k
StateIncrement(k) ==
  /\ steps < MaxSteps
  /\ controllers' = [controllers EXCEPT ![k] = increment(@)]
  /\ net' = [net EXCEPT ![k] = @ + 1]
  /\ steps' = steps + 1
  /\ oOp' = [NoCall EXCEPT !.name = "state.push", !.key = "counter"]
  /\ UNCHANGED <<para, obsv, obsObject, obsList, notes, varsChanged, varsRender,
                 varsMount, varsPreact>>

\* this.store.push('note', value) in any controller: every controller
\* reads the new object of the store as its listener runs
StorePush(value) ==
  /\ steps < MaxSteps
  /\ obsObject' = ObservableObject_push(obsObject, "note", value).o
  /\ notes' = ObservableObject_push(obsObject, "note", value).notes
  /\ controllers' =
       RefreshAll([k \in DOMAIN controllers |->
                     [controllers[k] EXCEPT
                        !.store = ObservableObject_push(obsObject, "note", value).o.object,
                        !.doc = [@ EXCEPT !.err = FALSE]]],
                  obsObject.listeners)
  /\ steps' = steps + 1
  /\ oOp' = [NoCall EXCEPT !.name = "store.push", !.key = "note", !.arg = value]
  /\ UNCHANGED <<para, net, obsv, obsList, varsChanged, varsRender, varsMount,
                 varsPreact>>

NextStore ==
  \/ \E k \in {"Controller", "PreactController"} : StateIncrement(k)
  \/ \E value \in NoteVals : StorePush(value)
SpecStore == InitStore /\ [][NextStore]_vars

\* the arguments of setState: partial states, and the updater functions
Partials ==
  {ObjVal(<<>>), ObjVal(<<Prop("a", Num(1))>>), ObjVal(<<Prop("b", Num(2))>>),
   ObjVal(<<Prop("b", Num(2)), Prop("a", Num(1))>>)}
UpdaterFns == {Fn(f, "") : f \in Updaters}

\* a view mounted by each of the three mounts, with and without diffing
InitMountState ==
  /\ \E initialState \in {<<Prop("a", Num(0))>>,
                          <<Prop("a", Num(0)), Prop("b", Num(1))>>} :
       mounted \in {mount(v, d, initialState) : v \in {"mount", "huerto"}, d \in BOOLEAN}
                     \cup {mount("mountWithActions", TRUE, initialState)}
  /\ vDom = Null /\ dom = EmptyDoc /\ domPlain = EmptyDoc
  /\ oldVDom = Null /\ newVDom = Null /\ threw = FALSE /\ calls = 0
  /\ IdleChanged /\ IdleRender /\ IdlePreact /\ IdleController /\ IdleObservable

\* setState(newState), which the view is given by mount
MountSetState(newState) ==
  /\ mounted.variant \in {"mount", "huerto"}
  /\ mounted.calls < MaxOps
  /\ mounted' =
       [(IF mounted.variant = "mount" THEN mount_setState(mounted, newState)
         ELSE huerto_setState(mounted, newState))
        EXCEPT !.calls = @ + 1,
               !.op = [name |-> "setState", arg |-> newState, before |-> mounted.state]]
  /\ UNCHANGED <<vDom, dom, domPlain, oldVDom, newVDom, threw, calls,
                 varsChanged, varsRender, varsPreact, varsController, varsObservable>>

\* act(action), which the view is given by mountWithActions
MountAct(action) ==
  /\ mounted.variant = "mountWithActions"
  /\ mounted.calls < MaxOps
  /\ mounted' =
       [mountWithActions_act(mounted, action)
        EXCEPT !.calls = @ + 1,
               !.op = [name |-> "act", arg |-> action, before |-> mounted.state]]
  /\ UNCHANGED <<vDom, dom, domPlain, oldVDom, newVDom, threw, calls,
                 varsChanged, varsRender, varsPreact, varsController, varsObservable>>

NextMountState ==
  \/ \E newState \in Partials \cup UpdaterFns : MountSetState(newState)
  \/ \E action \in UpdaterFns : MountAct(action)
SpecMountState == InitMountState /\ [][NextMountState]_vars

\* the counter scenario on a Controller (with and without diffing) and on
\* a PreactController, both constructed with the state {counter: 0}
InitController ==
  /\ \E diffing \in BOOLEAN :
       controllers = [k \in {"Controller", "PreactController"} |->
                        IF k = "Controller" THEN Controller([counter |-> Num(0)], diffing)
                        ELSE PreactController([counter |-> Num(0)])]
  /\ para = [k \in {"Controller", "PreactController"} |->
               firstChild(controllers[k].doc, Root)]
  /\ net = [k \in {"Controller", "PreactController"} |-> 0]
  /\ steps = 0
  /\ IdleChanged /\ IdleRender /\ IdleMount /\ IdlePreact /\ IdleObservable

Increment(k) ==
  /\ steps < MaxSteps
  /\ controllers' = [controllers EXCEPT ![k] = increment(@)]
  /\ net' = [net EXCEPT ![k] = @ + 1]
  /\ steps' = steps + 1
  /\ UNCHANGED <<para, varsChanged, varsRender, varsMount, varsPreact, varsObservable>>

Decrement(k) ==
  /\ steps < MaxSteps
  /\ controllers' = [controllers EXCEPT ![k] = decrement(@)]
  /\ net' = [net EXCEPT ![k] = @ - 1]
  /\ steps' = steps + 1
  /\ UNCHANGED <<para, varsChanged, varsRender, varsMount, varsPreact, varsObservable>>

NextController ==
  \E k \in {"Controller", "PreactController"} : Increment(k) \/ Decrement(k)

SpecController == InitController /\ [][NextController]_vars

-----------------------------------------------------------------------------
(* Claims about the controllers, under SpecController *)

\* $root.firstChild.textContent
RenderedText(k) ==
  textContent(controllers[k].doc, firstChild(controllers[k].doc, Root))

\* C8: on the Controller and on the PreactController, after any sequence of
\* increment and decrement actions, model.counter is the net count, the
\* text rendered in the paragraph is model.counter, and with diffing on
\* the paragraph is the node that was there after construction
C8_CounterScenario ==
  \A k \in DOMAIN controllers :
    /\ controllers[k].state.counter = Num(net[k])
    /\ ~controllers[k].doc.err
    /\ firstChild(controllers[k].doc, Root) # 0
    /\ RenderedText(k) = NumToString(net[k])
    /\ controllers[k].diffing => firstChild(controllers[k].doc, Root) = para[k]

C8_Witness ==
  /\ steps = 3
  /\ DOMAIN controllers # {}
  /\ controllers["Controller"].diffing
  /\ net["Controller"] = 2 /\ RenderedText("Controller") = "2"
  /\ net["PreactController"] = -1 /\ RenderedText("PreactController") = "-1"
  /\ firstChild(controllers["Controller"].doc, Root) = para["Controller"]
  /\ firstChild(controllers["PreactController"].doc, Root) = para["PreactController"]

-----------------------------------------------------------------------------
(* Claims about Preact's reconciler, under SpecKeyed and SpecComponent *)

\* the keys of the children of a list vnode, in order
KeysOf(vnode) == [i \in 1 .. Len(vnode.children) |-> vnode.children[i].key]

\* the live child of the list of w that carries key, 0 if there is none
NodeOfKey(w, key) ==
  LET list == firstChild(w, Root)
      hits == {n \in 1 .. Len(w.nodes) :
                 /\ w.nodes[n].parent = list
                 /\ w.nodes[n].pattr \notin {Absent, Bool(TRUE)}
                 /\ w.nodes[n].pattr["key"] = key}
  IN IF list = 0 \/ hits = {} THEN 0 ELSE CHOOSE n \in hits : TRUE

IsPermutation(s1, s2) ==
  Len(s1) = Len(s2) /\ {s1[i] : i \in 1 .. Len(s1)} = {s2[i] : i \in 1 .. Len(s2)}

\* C9: when a keyed list is rendered again as a permutation of the same
\* keys, the list has exactly the live nodes it had, each still an li with
\* its text, at the position its key has in the new list
C9_KeyedStability ==
  (renders >= 2 /\ IsPermutation(KeysOf(pVnode), KeysOf(pOldVnode))) =>
    LET list == firstChild(pDoc, Root)
        keys == KeysOf(pVnode)
    IN /\ ~pDoc.err
       /\ list = firstChild(pOld, Root)
       /\ Len(pDoc.nodes[list].kids) = Len(keys)
       /\ \A i \in 1 .. Len(keys) :
            LET n == pDoc.nodes[list].kids[i]
            IN /\ n = NodeOfKey(pOld, keys[i])
               /\ pDoc.nodes[n].name = "LI"
               /\ textContent(pDoc, n) = JsToString(keys[i])

C9_Witness ==
  /\ renders = 2
  /\ KeysOf(pOldVnode) = <<Num(1), Num(2), Num(3)>>
  /\ KeysOf(pVnode) = <<Num(3), Num(1), Num(2)>>
  /\ LET list == firstChild(pDoc, Root)
     IN /\ Len(pDoc.nodes[list].kids) = 3
        /\ pDoc.nodes[list].kids[1] = pOld.nodes[list].kids[3]
        /\ pDoc.nodes[list].kids[2] = pOld.nodes[list].kids[1]
        /\ pDoc.nodes[list].kids[3] = pOld.nodes[list].kids[2]

\* the place of the component X in a tree, and the key it is given there
PlaceOf(vnode) ==
  IF vnode.nodeName = Ctor("X") THEN "root"
  ELSE IF vnode.nodeName = Ctor("W") THEN "output" ELSE "child"
KeyAt(vnode) ==
  IF PlaceOf(vnode) = "root" THEN vnode.key
  ELSE IF PlaceOf(vnode) = "output" THEN vnode.attributes["a"]
  ELSE vnode.children[1].key

\* the instances of X that are mounted, and those for which the hook ran
\* in the last call of render
MountedX(w) ==
  {c \in 1 .. Len(w.comps) : w.comps[c].ctor = "X" /\ w.comps[c].base # 0}
RanHook(name) ==
  {pDoc.log[i].c : i \in {j \in 1 .. Len(pDoc.log) :
     pDoc.log[j].h = name /\ pDoc.comps[pDoc.log[j].c].ctor = "X"}}

\* C10: when X is rendered again at the same place, with the same key
\* neither componentWillMount nor componentWillUnmount runs, and with another
\* key the mounted instance is unmounted and a new instance is mounted
C10_ReuseByKey ==
  (renders >= 2 /\ PlaceOf(pVnode) = PlaceOf(pOldVnode)) =>
    IF KeyAt(pVnode) = KeyAt(pOldVnode)
    THEN RanHook("componentWillMount") = {} /\ RanHook("componentWillUnmount") = {}
    ELSE /\ RanHook("componentWillUnmount") = MountedX(pOld)
         /\ RanHook("componentWillMount") = MountedX(pDoc)
         /\ MountedX(pDoc) \cap MountedX(pOld) = {}

-----------------------------------------------------------------------------
(* Claims about changed, under SpecChanged *)

BothCarryAttributes ==
  /\ IsEl(node1) /\ IsEl(node2)
  /\ node1.attributes # Undef /\ node2.attributes # Undef

\* C3: for primitives a, b (strings or numbers) changed(a, b) is (a !== b);
\* a primitive against an element node is always changed; an element node
\* against an identical element node is not changed.
C3_ChangedOnPrimitives ==
  cpc = "done" =>
    /\ (IsPrim(node1) /\ IsPrim(node2)) => (result = ~StrictEq(node1, node2))
    /\ (IsPrim(node1) /\ IsEl(node2)) => result
    /\ (IsEl(node1) /\ IsPrim(node2)) => result
    /\ (IsEl(node1) /\ node1 = node2) => ~result

C3_Witness ==
  /\ cpc = "done"
  /\ \/ (node1 = Num(0) /\ node2 = Str("0") /\ result)
     \/ (IsEl(node1) /\ IsPrim(node2) /\ result)

\* C5 (as claimed): for two element nodes of the same tag that both carry an
\* attribute mapping, changed is true exactly when the key counts differ or
\* some key's value differs after normalizing both sides to a string.
C5_AttributesChangedExactly ==
  (cpc = "done" /\ BothCarryAttributes /\ node1.tagName = node2.tagName) =>
    (result <=>
       \/ Cardinality(Keys(node1.attributes)) # Cardinality(Keys(node2.attributes))
       \/ \E k \in AttrKeys :
            NormStr(Get(node1.attributes, k)) # NormStr(Get(node2.attributes, k)))

\* the values the claim calls noise, and the two nullish values
NoiseVals == {Num(0), Str(""), Bool(FALSE)}

\* every key is held by both nodes, with values that are identical or
\* one of `noise` on one side and null/undefined on the other
OnlyNoiseDiffers(noise) ==
  /\ BothCarryAttributes
  /\ node1.tagName = node2.tagName
  /\ Keys(node1.attributes) = Keys(node2.attributes)
  /\ \A k \in Keys(node1.attributes) :
       LET v == node1.attributes[k]
           w == node2.attributes[k]
       IN \/ v = w
          \/ (v \in noise /\ IsNullish(w))
          \/ (w \in noise /\ IsNullish(v))

\* C6 (as claimed): for the same key, 0, '' or false on one node and
\* null/undefined on the other is absorbed: the pair is not changed.
C6_NoiseAbsorbed ==
  (cpc = "done" /\ OnlyNoiseDiffers(NoiseVals)) => ~result

\* some key holds 0 or false on one node and null/undefined on the other
ZeroOrFalseAgainstNull ==
  /\ BothCarryAttributes
  /\ \E k \in Keys(node1.attributes) \cap Keys(node2.attributes) :
       LET v == node1.attributes[k]
           w == node2.attributes[k]
       IN \/ (v \in {Num(0), Bool(FALSE)} /\ IsNullish(w))
          \/ (w \in {Num(0), Bool(FALSE)} /\ IsNullish(v))

\* C6 (amended): null/undefined normalize to '', so for the same key '' (or
\* the other nullish value) against null/undefined is absorbed; 0 and false
\* stringify to '0' and 'false' and are reported as changed.
C6_EmptyStringAbsorbed ==
  cpc = "done" =>
    /\ OnlyNoiseDiffers({Str(""), Null, Undef}) => ~result
    /\ ZeroOrFalseAgainstNull => result

C6_Witness ==
  /\ cpc = "done"
  /\ OnlyNoiseDiffers({Str(""), Null, Undef})
  /\ node1.attributes["a"] = Str("")
  /\ node2.attributes["a"] = Null
  /\ ~result

-----------------------------------------------------------------------------
(* Claims about render, under SpecRender *)

\* C7 (as claimed): render(n) serialized back is isomorphic to n: same tag,
\* attribute keys equal to n's keys minus the function-valued ones, same
\* child count and order, text nodes for null and primitive children.
C7_RoundTripAllKeys ==
  rpc = "done" => Isomorphic(rDom, rOut, rNode, FALSE)

\* C7 (amended): as claimed, except that the attribute keys of the live
\* element are n's keys minus the function-valued ones and minus those
\* whose value is null or undefined.
C7_RoundTripRenderedKeys ==
  rpc = "done" =>
    /\ Isomorphic(rDom, rOut, rNode, TRUE)
    /\ Describe(rDom, rOut) = Expected(rNode)

C7_Witness ==
  /\ rpc = "done"
  /\ IsEl(rNode)
  /\ rNode.attributes["a"] = Fn(1, "f")
  /\ rNode.attributes["b"] = Null
  /\ rNode.children = <<Null, Num(0)>>
  /\ Len(rDom.nodes[rOut].kids) = 2

-----------------------------------------------------------------------------
(* Claims about the ordinal differ, under SpecMount *)

\* C1 (as claimed): with the live tree equal to materialize(old), after
\* diff(parent, old, new) the live tree is structurally equal to
\* materialize(new); mounts with and without diffing leave structurally
\* identical live trees after every setState.
C1_DiffConverges ==
  calls > 0 =>
    /\ ~threw
    /\ DescribeKids(dom, Root) = <<Expected(newVDom)>>
    /\ DescribeKids(dom, Root) = DescribeKids(domPlain, Root)

\* C2 (as claimed): with the live tree equal to materialize(T),
\* diff(parent, T, T) appends, removes and replaces nothing.
C2_DiffIdempotent ==
  (calls > 0 /\ newVDom = oldVDom) => (~threw /\ dom.muts = 0)

\* C4 (as claimed): changed is true of element nodes whose tags differ, so
\* diffing an old 'p' against a new 'span' at the same position leaves a
\* live node with the new tag there.
C4_TagMismatchReplaces ==
  (calls > 0 /\ oldVDom.tagName # newVDom.tagName) =>
    /\ changed(oldVDom, newVDom)
    /\ ~threw
    /\ ToLower(dom.nodes[firstChild(dom, Root)].name) = newVDom.tagName

-----------------------------------------------------------------------------
(* Scheduler *)

\* the entries of the log that the hook h of the instance c made
Entries(log, hook, c) == {i \in DOMAIN log : log[i].h = hook /\ log[i].c = c}

\* c is mounted: it has a base and is not disabled
Mounted(w, c) == w.comps[c].base # 0 /\ ~w.comps[c].disable

\* no hook of the scenarios calls setState or forceUpdate in this state
Quiet(w) ==
  \A c \in DOMAIN w.comps :
    /\ w.comps[c].state["ping"] \in {Absent, Num(0)}
    /\ w.comps[c].state["force"] # Bool(TRUE)

\* the last step was a flush with the mounted, dirty c alone in the queue
\* and no hook that schedules
FlushedAlone(c) ==
  /\ pOp'.name = "rerender"
  /\ pDoc.items = <<c>>
  /\ pDoc.comps[c].dirty
  /\ Mounted(pDoc, c)
  /\ Quiet(pDoc)

\* setState renders nothing and merges the update into the state
SetStateDefers ==
  pOp'.name = "setState" =>
    /\ pDoc'.log = <<>>
    /\ pDoc'.nodes = pDoc.nodes
    /\ pDoc'.comps[pOp'.c].state =
         extend(pDoc.comps[pOp'.c].state, Apply(pOp'.update, pDoc.comps[pOp'.c].state))

C12_NoDuplicateScheduling ==
  \A i, j \in DOMAIN pDoc.items : i # j => pDoc.items[i] # pDoc.items[j]

\* C13: in every reachable state at most one deferred flush is pending
C13_OneFlushPending == pDoc.timers <= 1

\* the instances a scenario of SpecDeferred can create: two at the start
\* and at most two with each call
Instances == 1 .. (2 + 2 * MaxLiveOps)

\* C14: when the deferred flush is eventually run, an instance whose dirty
\* flag is set has it cleared in the end
C14_DirtyCleared ==
  \A c \in Instances :
    (c \in DOMAIN pDoc.comps /\ pDoc.comps[c].dirty)
      ~> (c \in DOMAIN pDoc.comps /\ ~pDoc.comps[c].dirty)

\* C15: forceUpdate on a mounted component renders it before it returns,
\* with its current state and without a call of shouldComponentUpdate, and
\* clears the dirty flag, and the queue and the pending flushes are as
\* they were unless a hook schedules; a flush that finds the component in
\* the queue and no longer dirty does not render it
C15_ForceUpdateBypassesQueue ==
  [][\A c \in DOMAIN pDoc.comps :
       /\ (pOp'.name = "forceUpdate" /\ pOp'.c = c /\ Mounted(pDoc, c)) =>
            /\ \E i \in Entries(pDoc'.log, "render", c) :
                 pDoc'.log[i].arg = pDoc.comps[c].state
            /\ Entries(pDoc'.log, "shouldComponentUpdate", c) = {}
            /\ ~pDoc'.comps[c].dirty
            /\ Quiet(pDoc) => pDoc'.items = pDoc.items /\ pDoc'.timers = pDoc.timers
       /\ (pOp'.name = "rerender" /\ pDoc.items = <<c>> /\ ~pDoc.comps[c].dirty) =>
            /\ Entries(pDoc'.log, "render", c) = {}
            /\ pDoc'.nodes = pDoc.nodes]_vars

\* a component whose shouldComponentUpdate returns false was queued by
\* setState and rendered by forceUpdate, and the flush then found it in the
\* queue, not dirty, and rendered nothing
C15_Witness ==
  /\ pOp.name = "rerender"
  /\ \E c \in DOMAIN pOld.comps :
       /\ pOld.items = <<c>> /\ ~pOld.comps[c].dirty
       /\ pOld.comps[c].state["scu"] = Bool(FALSE)
       /\ pOld.comps[c].shown = pOld.comps[c].state
       /\ \A i \in DOMAIN pDoc.log : pDoc.log[i].h = "pop"

\* the entries the flush made as it popped a component
Pops(log) == {i \in DOMAIN log : log[i].h = "pop"}

\* s from its last element to its first
Reverse(s) == [i \in 1 .. Len(s) |-> s[Len(s) + 1 - i]]

\* C16: a flush pops the component queued last, at every turn of its loop,
\* so that without a hook that schedules it pops the queue from its end to
\* its start; it renders a popped component if and only if its dirty flag
\* is set (and renderComponent, which returns at once on a disabled
\* component, lets it), and it returns with the queue empty
C16_FlushLifo ==
  [][pOp'.name = "rerender" =>
       /\ pDoc'.items = <<>>
       /\ Cardinality(Pops(pDoc'.log)) >= Len(pDoc.items)
       /\ \A i \in Pops(pDoc'.log) :
            /\ pDoc'.log[i].c = pDoc'.log[i].arg.items[Len(pDoc'.log[i].arg.items)]
            /\ (pDoc'.log[i].arg.dirty /\ ~pDoc'.log[i].arg.disable) <=>
                 (i + 1 \in DOMAIN pDoc'.log /\ pDoc'.log[i + 1].h = "renderComponent"
                    /\ pDoc'.log[i + 1].c = pDoc'.log[i].c)
       /\ Quiet(pDoc) =>
            LET pops == SelectSeq(pDoc'.log, LAMBDA e : e.h = "pop")
            IN [i \in DOMAIN pops |-> pops[i].c] = Reverse(pDoc.items)]_vars

\* a flush of a queue of two components has popped the one queued last
\* first and rendered it, it being dirty, and has later popped a component
\* that was not dirty and has not rendered it
C16_Witness ==
  /\ pOp.name = "rerender"
  /\ Len(pOld.items) = 2 /\ pOld.items[1] # pOld.items[2]
  /\ \E i, j \in Pops(pDoc.log) :
       /\ i < j
       /\ pDoc.log[i].c = pOld.items[2] /\ pDoc.log[i].arg.dirty
       /\ pDoc.log[i + 1].h = "renderComponent"
       /\ ~pDoc.log[j].arg.dirty
       /\ (j = Len(pDoc.log) \/ pDoc.log[j + 1].h = "pop")

\* C17: on a flush of a mounted component, if shouldComponentUpdate returns
\* exactly false then render, componentWillUpdate and componentDidUpdate do
\* not run and the document is as it was, the queued setState callbacks
\* run and the dirty flag is cleared; on any other result render runs with
\* the current state
C17_RenderDecision ==
  [][\A c \in DOMAIN pDoc.comps :
       FlushedAlone(c) =>
         IF pDoc.comps[c].state["scu"] = Bool(FALSE)
         THEN /\ Entries(pDoc'.log, "render", c) = {}
              /\ Entries(pDoc'.log, "componentWillUpdate", c) = {}
              /\ Entries(pDoc'.log, "componentDidUpdate", c) = {}
              /\ pDoc'.nodes = pDoc.nodes
              /\ Cardinality(Entries(pDoc'.log, "callback", c))
                   = Len(pDoc.comps[c].callbacks)
              /\ pDoc'.comps[c].callbacks = <<>>
              /\ ~pDoc'.comps[c].dirty
         ELSE \E i \in Entries(pDoc'.log, "render", c) :
                pDoc'.log[i].arg = pDoc.comps[c].state]_vars

\* a flush has skipped the render of a component whose
\* shouldComponentUpdate returned false and has run its setState callback
C17_Witness ==
  /\ pOp.name = "rerender"
  /\ \E c \in DOMAIN pOld.comps :
       /\ pOld.items = <<c>> /\ pOld.comps[c].dirty /\ Mounted(pOld, c) /\ Quiet(pOld)
       /\ pOld.comps[c].state["scu"] = Bool(FALSE)
       /\ pOld.comps[c].callbacks # <<>>
       /\ Entries(pDoc.log, "callback", c) # {}
       /\ Entries(pDoc.log, "render", c) = {}

\* C18: componentDidMount, componentDidUpdate and the setState callbacks
\* never run while the pass depth diffLevel is greater than zero
C18_PostCommitAfterOutermostPass ==
  \A i \in DOMAIN pDoc.log :
    pDoc.log[i].h \in {"componentDidMount", "componentDidUpdate", "callback"}
      => pDoc.log[i].level = 0

\* C19: while renderComponent is applying an update to an instance, no hook
\* and no render of that instance runs inside a second renderComponent call
\* on it: a forceUpdate made from its own hooks is a no-op
C19_ReentrancyGuard ==
  \A i \in DOMAIN pDoc.log : pDoc.log[i].active <= 1

\* the instances the last operation unmounted, in an operation that
\* mounted none
UnmountedNow(c) ==
  /\ c \in DOMAIN pOld.comps
  /\ Entries(pDoc.log, "componentWillUnmount", c) # {}
  /\ \A i \in DOMAIN pDoc.log : pDoc.log[i].h # "componentWillMount"

\* what unmountComponent leaves of c apart from the recycle pool: c is
\* disabled, its base is null, its ref holds null, its former base is
\* detached and its nested component is unmounted
UnmountedState(c) ==
  /\ pDoc.comps[c].disable
  /\ pDoc.comps[c].base = 0
  /\ pDoc.comps[c].ref \in {Undef, Null} \/ pDoc.refs[pDoc.comps[c].ref.id] = Null
  /\ pOld.comps[c].base # 0 => pDoc.nodes[pOld.comps[c].base].parent = 0
  /\ pDoc.comps[c].inner > 0 =>
       /\ Entries(pDoc.log, "componentWillUnmount", pDoc.comps[c].inner) # {}
       /\ pDoc.comps[pDoc.comps[c].inner].disable
       /\ pDoc.comps[pDoc.comps[c].inner].base = 0

\* C20: after unmountComponent every unmounted instance, the outer instance
\* of a component that renders a component included, is disabled, has no
\* base, has null in its ref, has its former base detached and its nested
\* component unmounted, and is in the recycle pool
C20_UnmountPostconditions ==
  \A c \in DOMAIN pDoc.comps :
    UnmountedNow(c) =>
      /\ UnmountedState(c)
      /\ \E i \in DOMAIN pDoc.recycler : pDoc.recycler[i] = c

-----------------------------------------------------------------------------
(* Instances and their lives, under SpecComponent and SpecScheduler *)

\* the instances of the recycle pool of w
Pooled(w) == {w.recycler[i] : i \in DOMAIN w.recycler}

\* the instances the last operation took out of the pool
Unpooled == Pooled(pOld) \ Pooled(pDoc)

\* C21: a pooled instance that createComponent takes out of the pool is the
\* instance it returns: after the operation that took it, it is in use
\* again (it has a base) and no other instance was constructed in its place
C21_ReusesPooled ==
  \A p \in Unpooled :
    /\ pDoc.comps[p].base # 0
    /\ \A c \in (Len(pOld.comps) + 1) .. Len(pDoc.comps) :
         pDoc.comps[c].ctor # pDoc.comps[p].ctor

\* C22: every instance runs componentWillMount at most once and before its
\* first render, runs componentWillReceiveProps, shouldComponentUpdate,
\* componentWillUpdate and componentDidUpdate only when it has a base from
\* an earlier render, and runs no render and no update hook once
\* componentWillUnmount has run
MountsOnce ==
  \A c \in DOMAIN pDoc.comps :
    pDoc.comps[c].life.mounts <= 1 /\ ~pDoc.comps[c].life.lateMount
UpdatesOnBase == \A c \in DOMAIN pDoc.comps : ~pDoc.comps[c].life.baseless
DeadStaysDead == \A c \in DOMAIN pDoc.comps : ~pDoc.comps[c].life.undead
C22_LifecycleOrder == MountsOnce /\ UpdatesOnBase /\ DeadStaysDead

\* the last operation was a call the program made itself, not the deferred
\* flush
Synchronous == pOp.name \in {"setState", "forceUpdate", "render"}

\* a hook threw in the last operation; the operation ended with the
\* exception; nothing ran after the hook that threw
Threw == pDoc.thrown.on
Propagated == pDoc.err
Untouched == pDoc.nodes = pDoc.thrown.nodes /\ Len(pDoc.log) = pDoc.thrown.at

\* C23 as stated: a hook that throws is not caught, the exception leaves
\* the setState, forceUpdate or render call that triggered the update, and
\* the live tree is left as it was when the hook threw
C23_PropagatesFromTrigger ==
  Threw => Propagated /\ Synchronous /\ Untouched

\* C23: a hook that throws is not caught: the exception ends the operation
\* the hook ran in, which is the forceUpdate or render call itself, or the
\* deferred flush for an update that setState triggered (never the setState
\* call), and the live tree is left as it was when the hook threw
C23_Propagates ==
  /\ Threw => Propagated /\ Untouched /\ pOp.name \in {"forceUpdate", "render", "rerender"}
  /\ pOp.name = "setState" => ~Propagated
\* a componentDidUpdate threw in the deferred flush, after the live tree
\* was patched
C23_Witness ==
  /\ Threw /\ pOp.name = "rerender"
  /\ pDoc.log[Len(pDoc.log)].h = "componentDidUpdate"
  /\ pDoc.nodes # pOld.nodes

-----------------------------------------------------------------------------
(* Observables *)

\* the calls in ns are those of the listeners ls, one each and in their
\* order, with the arguments (a, b)
EachOnce(ns, ls, a, b) ==
  /\ Len(ns) = Len(ls)
  /\ \A i \in 1 .. Len(ls) :
       ns[i].cb = ls[i] /\ ns[i].new = a /\ ns[i].old = b

\* C24: for each Observable, get() returns the last value set; set(v) with
\* v !== current calls every registered listener once, in registration
\* order, with (v, current), and set(v) with v === current calls nobody;
\* onChange(cb) calls cb once, at once, with (current, current); and no
\* operation changes or notifies the other Observable
C24_ObservableStep ==
  \A k \in 1 .. 2 :
    /\ oOp'.o = k =>
         \A j \in (1 .. 2) \ {k} : obsv'[j] = obsv[j]
    /\ oOp'.name = "set" /\ oOp'.o = k =>
         /\ Observable_get(obsv'[k]) = oOp'.arg
         /\ obsv'[k].listeners = obsv[k].listeners
         /\ IF oOp'.arg # Observable_get(obsv[k])
            THEN EachOnce(notes', obsv[k].listeners, oOp'.arg, Observable_get(obsv[k]))
            ELSE notes' = <<>>
    /\ oOp'.name = "onChange" /\ oOp'.o = k =>
         /\ Observable_get(obsv'[k]) = Observable_get(obsv[k])
         /\ obsv'[k].listeners = Append(obsv[k].listeners, oOp'.cb)
         /\ EachOnce(notes', <<oOp'.cb>>, Observable_get(obsv[k]),
                     Observable_get(obsv[k]))
C24_Observable == [][C24_ObservableStep]_vars
\* a set of a new value on an Observable with two listeners, while the
\* other Observable has listeners as well, then a set of the same value
C24_Witness ==
  /\ oOp.name = "set" /\ oOp.o = 1
  /\ Len(obsv[1].listeners) = 2 /\ Len(obsv[2].listeners) = 2
  /\ Len(notes) = 2 /\ notes[1].new # notes[1].old
C24_WitnessSame ==
  /\ oOp.name = "set" /\ Len(obsv[oOp.o].listeners) = 2 /\ notes = <<>>

\* the calls in ns that the subscribers of key made; the key of a call of
\* an onChange listener is ""
SubNotes(ns, key) == SelectSeq(ns, LAMBDA n : n.key = key)
Mutations == {"set", "push", "remove", "replace"}

\* C25: an operation of the ObservableObject (set, push, remove, replace)
\* calls the subscribers of a key, each once with (newValue, oldValue) of
\* that key, exactly when it changes the value of that key; it calls each
\* onChange listener once with (newObject, oldObject); after replace(o) a
\* property the object had and o has not is a property with the value
\* undefined, and after remove(k) so is k
C25_ObservableObjectStep ==
  oOp'.name \in Mutations =>
    /\ \A key \in ObjKeys :
         IF ValueAt(obsObject'.object, key) # ValueAt(obsObject.object, key)
         THEN EachOnce(SubNotes(notes', key), obsObject.subscribers[key],
                       ValueAt(obsObject'.object, key),
                       ValueAt(obsObject.object, key))
         ELSE SubNotes(notes', key) = <<>>
    /\ EachOnce(SubNotes(notes', ""), obsObject.listeners,
                ObjVal(ObservableObject_get(obsObject')),
                ObjVal(ObservableObject_get(obsObject)))
    /\ oOp'.name = "replace" =>
         \A key \in OwnKeys(obsObject.object) \ OwnKeys(oOp'.arg.props) :
           /\ key \in OwnKeys(obsObject'.object)
           /\ ValueAt(obsObject'.object, key) = Undef
    /\ oOp'.name = "remove" =>
         /\ oOp'.key \in OwnKeys(obsObject'.object)
         /\ ValueAt(obsObject'.object, oOp'.key) = Undef
C25_ObservableObject == [][C25_ObservableObjectStep]_vars
\* a replace that changed a and left b, a property without a value, alone:
\* the two subscribers of a and the listener were called, the subscriber
\* of b was not
C25_Witness ==
  /\ oOp.name = "replace"
  /\ Len(obsObject.subscribers["a"]) = 2 /\ Len(obsObject.subscribers["b"]) >= 1
  /\ Len(obsObject.listeners) >= 1
  /\ Len(SubNotes(notes, "a")) = 2 /\ SubNotes(notes, "b") = <<>>
  /\ Len(SubNotes(notes, "")) = Len(obsObject.listeners)
  /\ "b" \in OwnKeys(obsObject.object) /\ "b" \notin OwnKeys(oOp.arg.props)

\* the number of items of the list that are === item
Occurrences(list, item) == Cardinality({i \in DOMAIN list : StrictEq(list[i], item)})
\* the list without its i-th item (from 1)
Without(list, i) == [j \in 1 .. (Len(list) - 1) |-> IF j < i THEN list[j] ELSE list[j + 1]]

\* C26: count() is the length of the raw list and get(indexOf(x)) is x for
\* every x the list contains, in every reachable state
C26_Decorates ==
  obsList # Null =>
    /\ ObservableList_count(obsList) = Len(obsList.list)
    /\ \A i \in DOMAIN obsList.list :
         ObservableList_get(obsList, ObservableList_indexOf(obsList, obsList.list[i]))
           = obsList.list[i]
\* C26: add(item) appends the item and calls each add listener once with
\* it; remove(item) removes one occurrence of the item, the first, when the
\* list contains it (and nothing otherwise) and calls each remove listener
\* once with it
C26_ObservableListStep ==
  /\ C26_Decorates'
  /\ oOp'.name = "add" =>
       /\ obsList'.list = Append(obsList.list, oOp'.arg)
       /\ EachOnce(notes', obsList.addListeners, oOp'.arg, Absent)
  /\ oOp'.name = "remove" =>
       /\ EachOnce(notes', obsList.removeListeners, oOp'.arg, Absent)
       /\ IF Occurrences(obsList.list, oOp'.arg) > 0
          THEN /\ Occurrences(obsList'.list, oOp'.arg)
                    = Occurrences(obsList.list, oOp'.arg) - 1
               /\ \E i \in DOMAIN obsList.list :
                    /\ StrictEq(obsList.list[i], oOp'.arg)
                    /\ \A j \in 1 .. (i - 1) : ~StrictEq(obsList.list[j], oOp'.arg)
                    /\ obsList'.list = Without(obsList.list, i)
          ELSE obsList'.list = obsList.list
C26_ObservableList == [][C26_ObservableListStep]_vars
\* a remove of an item the list held twice, with two remove listeners
C26_Witness ==
  /\ obsList # Null /\ oOp.name = "remove"
  /\ Occurrences(obsList.list, oOp.arg) = 1 /\ Len(obsList.list) = 2
  /\ Len(notes) = 2 /\ Len(obsList.removeListeners) = 2

-----------------------------------------------------------------------------
(* Controllers that share the store, under SpecStore *)

\* the retained vDom of the controller k is view(controller) for the
\* model as it is now
Retained(k) == controllers[k].vDom = view(controllers[k])
\* the live tree under the root of the controller k reflects its vDom
Reflected(k) ==
  DescribeKids(controllers[k].doc, Root) = <<Expected(controllers[k].vDom)>>

\* C27: once the controllers are constructed, and after every change of a
\* state or of the store they share, the retained vDom of each controller
\* is view(controller) and the live tree under its root reflects it
C27_ControllerContract ==
  \A k \in DOMAIN controllers : Retained(k) /\ Reflected(k)

-----------------------------------------------------------------------------
(* The state of a mounted view, under SpecMountState *)

\* the call is over without an exception
Returned == ~mounted.doc.err
\* setState(partial): the state is the shallow merge of the state before
\* the call and partial
Merged ==
  (mounted.op.name = "setState" /\ mounted.op.arg.t = "object")
    => mounted.state = Spread(mounted.op.before, mounted.op.arg.props)
\* setState(fn) and act(fn): the state is fn applied to the state before
Applied ==
  (mounted.op.name \in {"setState", "act"} /\ mounted.op.arg.t = "fn")
    => ObjVal(mounted.state) = Updater(mounted.op.arg.id, mounted.op.before)
\* as Applied, where a function that returns nothing leaves the state
AppliedOrKept ==
  (mounted.op.name \in {"setState", "act"} /\ mounted.op.arg.t = "fn")
    => mounted.state = OrState(Updater(mounted.op.arg.id, mounted.op.before),
                               mounted.op.before)
\* the retained tree is the view of the state
RetainsNew ==
  (mounted.op.name # "none" /\ Returned) => mounted.vDom = stateView(mounted.state)
\* C28: after setState(partial) the state of a mounted view is the shallow
\* merge of the state before and partial, after setState(fn) it is fn
\* applied to the state before, and in both cases the retained tree is the
\* view of the new state when the call returns; for every mount
C28_SetState == Merged /\ Applied /\ RetainsNew

-----------------------------------------------------------------------------
(* The Node Model constructor, under SpecH *)

\* h has returned
Built == hNode # Null
\* the attributes are {} when null or undefined is given
DefaultAttributes ==
  (Built /\ hArgs.attributes \in {Undef, Null}) => hNode.attributes = EmptyObj
\* the node given at position i of nodes, as the children it stands for
\* when arrays are opened one level deep
OneLevel(node) == IF node.t = "array" THEN node.items ELSE <<node>>
\* as OneLevel, where null and undefined stand for no child
Collapsing(node) ==
  IF node.t = "array" THEN SelectSeq(node.items, LAMBDA c : ~IsNullish(c))
  ELSE IF IsNullish(node) THEN <<>>
  ELSE <<node>>
RECURSIVE Joined(_, _)
Joined(Part(_), nodes) ==
  IF nodes = <<>> THEN <<>> ELSE Part(Head(nodes)) \o Joined(Part, Tail(nodes))
\* the children are the nodes in order, arrays opened one level deep
FlattenedOnce == Built => hNode.children = Joined(OneLevel, hArgs.nodes)
\* a null or undefined node is a child
NullKept ==
  (Built /\ \E i \in DOMAIN hArgs.nodes : IsNullish(hArgs.nodes[i]))
    => \E j \in DOMAIN hNode.children : IsNullish(hNode.children[j])

\* C29 as stated: h(tagName, attributes, ...nodes) returns a node whose
\* attributes are {} when attributes is null or undefined and whose
\* children are the nodes in order, arrays opened one level deep and null
\* and undefined nodes giving no child
C29_H ==
  /\ DefaultAttributes
  /\ Built => hNode.children = Joined(Collapsing, hArgs.nodes)

\* C29: h(tagName, attributes, ...nodes) returns a node whose attributes
\* are {} when attributes is null or undefined and whose children are the
\* nodes in order, arrays opened exactly one level deep; a null or
\* undefined node is a child like any other, and no nodes give no children
C29_HFlattens ==
  /\ DefaultAttributes
  /\ FlattenedOnce
  /\ NullKept
  /\ (Built /\ hArgs.nodes = <<>>) => hNode.children = <<>>
\* h was called without attributes, with null and with an array in an array
C29_Witness ==
  /\ Built
  /\ hArgs.attributes = Null
  /\ hArgs.nodes = <<Null, Arr(<<Arr(<<Num(1)>>)>>)>>
  /\ hNode.children = <<Null, Arr(<<Num(1)>>)>>

-----------------------------------------------------------------------------
(* The children of a list after innerDiffNode, under SpecReconcile *)

\* the live list, and its children in a document
LiveList(w) == firstChild(w, Root)
LiveChildren(w) == IF LiveList(w) = 0 THEN <<>> ELSE w.nodes[LiveList(w)].kids
\* the component hook was called on the instance c in the last render
Unmounted(c) ==
  \E i \in DOMAIN pDoc.log : pDoc.log[i].h = "componentWillUnmount" /\ pDoc.log[i].c = c
\* the live node id is the node of the child vchild: the text, the element
\* with the key and the children of vchild, or the base of an instance of
\* the component with the key of vchild
IsNodeOf(w, id, vchild) ==
  LET n == w.nodes[id]
  IN IF vchild.t # "el"
     THEN n.kind = "text" /\ n.value = JsToString(vchild) /\ n.comp = 0
     ELSE IF TypeOf(vchild.nodeName) = "function"
     THEN /\ n.comp # 0
          /\ w.comps[n.comp].ctor = vchild.nodeName.id
          /\ w.comps[n.comp].base = id
          /\ (IF vchild.key = Undef THEN IsNullish(w.comps[n.comp].key)
              ELSE w.comps[n.comp].key = vchild.key)
          /\ n.kind = "elem" /\ n.name = "P"
     ELSE /\ n.comp = 0
          /\ n.kind = "elem" /\ ToLower(n.name) = vchild.nodeName.s
          /\ (vchild.key # Undef => n.pattr["key"] = vchild.key)
          /\ Len(n.kids) = Len(vchild.children)
          /\ \A k \in DOMAIN n.kids :
               /\ w.nodes[n.kids[k]].kind = "text"
               /\ w.nodes[n.kids[k]].value = JsToString(vchild.children[k])
\* the children of the live list are the nodes of the new children, in
\* their order
InOrder ==
  /\ Len(LiveChildren(pDoc)) = Len(pVnode.children)
  /\ \A i \in DOMAIN pVnode.children :
       IsNodeOf(pDoc, LiveChildren(pDoc)[i], pVnode.children[i])
\* the children the list had that it has no more
Dropped ==
  {LiveChildren(pOld)[i] : i \in DOMAIN LiveChildren(pOld)}
    \ {LiveChildren(pDoc)[i] : i \in DOMAIN LiveChildren(pDoc)}
\* a dropped child has no parent, and the instance that owned it was
\* unmounted with its hook
DroppedUnmounted ==
  \A id \in Dropped :
    /\ pDoc.nodes[id].parent = 0
    /\ pOld.nodes[id].comp # 0 =>
         /\ Unmounted(pOld.nodes[id].comp)
         /\ pDoc.comps[pOld.nodes[id].comp].base = 0
\* a child that stays was not unmounted
KeptMounted ==
  \A i \in DOMAIN LiveChildren(pDoc) :
    LET id == LiveChildren(pDoc)[i]
    IN (id <= Len(pOld.nodes) /\ pOld.nodes[id].comp # 0) => ~Unmounted(pOld.nodes[id].comp)
\* a key that the list had and has again is on the node it was on
KeyedMatched ==
  \A i \in DOMAIN pOldVnode.children, j \in DOMAIN pVnode.children :
    (/\ ChildKey(pOldVnode.children[i]) # Undef
     /\ ChildKey(pOldVnode.children[i]) = ChildKey(pVnode.children[j]))
      => LiveChildren(pOld)[i] = LiveChildren(pDoc)[j]

\* C30: after a list whose keyed children have different keys is rendered
\* again, the children of the live list are exactly the nodes matched or
\* created for the new children, in the order of the new children, and
\* every child that was not matched is no longer a child of the list and,
\* if a component owned it, that component was unmounted with
\* componentWillUnmount
C30_ReconciledChildren ==
  (pOldVnode # Null /\ ~pDoc.err) =>
    /\ InOrder
    /\ DroppedUnmounted
    /\ KeptMounted
    /\ KeyedMatched

\* the list of X with the key 3 before li 1 was rendered again as li 1
\* before a span: li 1 is the node it was, the base of X is dropped and X
\* was unmounted
C30_Witness ==
  /\ pOldVnode # Null /\ ~pDoc.err
  /\ pOldVnode.children = <<AtRoot(Num(3)), li(1)>>
  /\ pVnode.children = <<li(1), pNode(Str("span"), Undef, <<>>)>>
  /\ LiveChildren(pDoc)[1] = LiveChildren(pOld)[2]
  /\ Dropped = {LiveChildren(pOld)[1]}
  /\ Unmounted(pOld.nodes[LiveChildren(pOld)[1]].comp)

-----------------------------------------------------------------------------
(* Siblings with the same key, under SpecCollision *)

\* the live child that the list had under key when the render began: the
\* last of its children with that key, 0 if there is none
RecordedUnder(key) ==
  LET kids == LiveChildren(pOld)
      hits == {i \in DOMAIN kids :
                 /\ pOld.nodes[kids[i]].pattr \notin {Absent, Bool(TRUE)}
                 /\ pOld.nodes[kids[i]].pattr["key"] = key}
  IN IF hits = {} THEN 0 ELSE kids[CHOOSE i \in hits : \A j \in hits : j <= i]
\* the new child i is the first with its key
FirstOfKey(i) == \A j \in 1 .. i - 1 : pVnode.children[j].key # pVnode.children[i].key
\* two of the new children have the same key
Collides == \E i \in DOMAIN pVnode.children : ~FirstOfKey(i)
\* the live node id did not exist when the render began
FreshNode(id) == id > Len(pOld.nodes)

\* C31: when two new siblings have the same key, the first of them takes
\* the live child recorded under the key, every later one gets a new live
\* node of its own, and no exception is thrown
C31_KeyCollision ==
  pVnode # Null =>
    /\ ~pDoc.err
    /\ Len(LiveChildren(pDoc)) >= Len(pVnode.children)
    /\ \A i \in DOMAIN pVnode.children :
         LET id == LiveChildren(pDoc)[i]
         IN /\ IsNodeOf(pDoc, id, pVnode.children[i])
            /\ (FirstOfKey(i) /\ RecordedUnder(pVnode.children[i].key) # 0)
                 => id = RecordedUnder(pVnode.children[i].key)
            /\ ~FirstOfKey(i) => FreshNode(id)
\* the list li 1, li 2 was rendered again as li 2, li 2, li 1
C31_Witness ==
  /\ pOldVnode # Null /\ ~pDoc.err
  /\ pOldVnode.children = <<li(1), li(2)>>
  /\ pVnode.children = <<li(2), li(2), li(1)>>
  /\ LiveChildren(pDoc)[1] = LiveChildren(pOld)[2]
  /\ FreshNode(LiveChildren(pDoc)[2])
  /\ LiveChildren(pDoc)[3] = LiveChildren(pOld)[1]

-----------------------------------------------------------------------------
(* The attributes of a live node and their cache, under SpecAttributes *)

\* the live paragraph, in a document
Paragraph(w) == firstChild(w, Root)
\* attrs[k] of the vnode rendered last; Absent when attrs has no such key
Given(k) ==
  IF pVnode.attributes = Undef \/ k \notin DOMAIN pVnode.attributes THEN Absent
  ELSE pVnode.attributes[k]
\* the cached value of the key k, before the render and after it
CachedBefore(k) ==
  IF Paragraph(pOld) = 0 THEN Undef ELSE Get(pOld.nodes[Paragraph(pOld)].pattr, k)
Cached(k) == Get(pDoc.nodes[Paragraph(pDoc)].pattr, k)
\* the handler of click is registered on the live paragraph
Listens ==
  [type |-> "click", fn |-> eventProxy.id] \in pDoc.nodes[Paragraph(pDoc)].listeners
Handler ==
  IF pDoc.nodes[Paragraph(pDoc)].handlers = Absent THEN Undef
  ELSE Get(pDoc.nodes[Paragraph(pDoc)].handlers, "click")
\* a key that was cached with a value and is absent or null in attrs is
\* removed from the live node, its listener deregistered
RemovedFromLive ==
  /\ (~IsNullish(CachedBefore("a")) /\ (Given("a") = Absent \/ IsNullish(Given("a"))))
       => pDoc.nodes[Paragraph(pDoc)].attrs["a"] = Absent
  /\ (~IsNullish(CachedBefore("onclick"))
        /\ (Given("onclick") = Absent \/ IsNullish(Given("onclick"))))
       => (~Listens /\ IsNullish(Handler))
\* a key of attrs with a value is on the live node with that value
AppliedToLive ==
  /\ (Given("a") # Absent /\ ~IsNullish(Given("a")))
       => pDoc.nodes[Paragraph(pDoc)].attrs["a"] =
            (IF Given("a") = Bool(FALSE) THEN Absent ELSE Str(JsToString(Given("a"))))
  /\ (Given("onclick") # Absent /\ ~IsNullish(Given("onclick")))
       => (Listens /\ Handler = Given("onclick"))
\* the cache is attrs on the keys of attrs
CacheOnKeys ==
  \A k \in PropKeys \cup AttrKeys : Given(k) # Absent => Cached(k) = Given(k)
\* the cache is undefined on every other key
CacheElsewhereUndefined ==
  \A k \in PropKeys \cup AttrKeys : Given(k) = Absent => Cached(k) = Undef
\* the cache is null or undefined on every other key
CacheElsewhereNullish ==
  \A k \in PropKeys \cup AttrKeys : Given(k) = Absent => IsNullish(Cached(k))

-----------------------------------------------------------------------------
(* The ordinal differ on shorter lists and on missing live children, under *)
(* SpecMount                                                               *)

\* the live element under $root
LiveRoot == firstChild(dom, Root)
\* the old and the new tree are elements that diff patches child by child
Patched ==
  /\ calls > 0
  /\ IsEl(oldVDom) /\ IsEl(newVDom)
  /\ ~changed(oldVDom, newVDom)

\* C33: when the new node has fewer children than the old node, diff
\* removes the surplus live children: after the patch the live element
\* has as many children as the new node
C33_SurplusRemoved ==
  (Patched /\ ~threw /\ Len(newVDom.children) < Len(oldVDom.children))
    => Len(dom.nodes[LiveRoot].kids) = Len(newVDom.children)

\* C34: with the live tree equal to the materialized old tree, diff of
\* any old and new tree ends without an exception: it hands no undefined
\* node to removeChild or replaceChild and descends into no undefined
\* parent
C34_NoMissingChild == calls > 0 => ~threw

-----------------------------------------------------------------------------
(* Symmetry of changed, under SpecChanged *)

\* C35: changed is symmetric: for all nodes a and b, primitives or
\* element nodes with attribute maps, changed(a, b) = changed(b, a)
C35_ChangedSymmetric ==
  cpc = "done" => (result = changed(node2, node1))

-----------------------------------------------------------------------------
(* The pass depth and the scheduler after an exception, under SpecThrowing *)

\* C36: the pass-depth counter diffLevel is 0 whenever no diff pass is on
\* the call stack (between two operations), also after a pass that a
\* throwing hook aborted
C36_DiffLevelBalanced == pDoc.diffLevel = 0

\* C37: whenever the dirty queue items is not empty and rerender is not
\* running (between two operations), a deferred rerender is pending
C37_SchedulerArmed == pDoc.items # <<>> => pDoc.timers > 0

-----------------------------------------------------------------------------
(* componentDidMount and instances that were unmounted, under SpecRemount *)

\* C38: componentDidMount is never invoked on an instance after the
\* componentWillUnmount of that instance has run
C38_NoDidMountAfterUnmount ==
  \A c \in DOMAIN pDoc.comps : ~pDoc.comps[c].life.posthumous

-----------------------------------------------------------------------------
(* The order of the componentDidMount callbacks, under SpecLifecycle *)

RECURSIVE Below(_, _), Owns(_, _)
\* the live node n lies below the live node top
Below(n, top) ==
  IF n = 0 \/ pDoc.nodes[n].parent = 0 THEN FALSE
  ELSE pDoc.nodes[n].parent = top \/ Below(pDoc.nodes[n].parent, top)
\* c is the component that p renders directly, or the one that one renders
Owns(p, c) ==
  /\ pDoc.comps[c].parentComp # 0
  /\ (pDoc.comps[c].parentComp = p \/ Owns(p, pDoc.comps[c].parentComp))
\* c is mounted inside the output of p
MountedInside(c, p) ==
  /\ c # p
  /\ pDoc.comps[c].base # 0 /\ pDoc.comps[p].base # 0
  /\ (Owns(p, c) \/ Below(pDoc.comps[c].base, pDoc.comps[p].base))
\* where the render call invoked componentDidMount of c
DidMountAt(c) == Entries(pDoc.log, "componentDidMount", c)

\* C39: within one render call, the componentDidMount of a component that
\* is mounted inside the output of a parent component, as an element child
\* or as the component the parent renders directly, is invoked before the
\* componentDidMount of the parent
C39_DescendantsFirst ==
  \A p, c \in DOMAIN pDoc.comps :
    MountedInside(c, p) =>
      \A i \in DidMountAt(c), j \in DidMountAt(p) : i < j

\* V around a div around W that renders X: all three were mounted in the
\* last render call
C39_Witness ==
  \E v, x, y \in DOMAIN pDoc.comps :
    /\ Below(pDoc.comps[x].base, pDoc.comps[v].base)
    /\ Owns(x, y)
    /\ DidMountAt(v) # {} /\ DidMountAt(x) # {} /\ DidMountAt(y) # {}

-----------------------------------------------------------------------------
(* Listeners that set the observable they listen to, under SpecReentrant *)

\* the last call that the listener cb received in the last operation
LastNote(cb) ==
  notes[CHOOSE i \in DOMAIN notes :
          notes[i].cb = cb /\ \A j \in DOMAIN notes : notes[j].cb = cb => j <= i]

\* C40: after a set on an Observable has returned, also when a listener
\* called set on the same observable while it was notified, the last
\* notification that every registered listener received carries the
\* current value of the observable as its new value
C40_NoStaleListener ==
  (oOp.name = "set" /\ notes # <<>>) =>
    \A i \in DOMAIN obsv[oOp.o].listeners :
      LastNote(obsv[oOp.o].listeners[i]).new = Observable_get(obsv[oOp.o])

=============================================================================
